---- MODULE Spec2Model ----
(***************************************************************************)
(* Panam log viewer: the log access engine as state machines.              *)
(*                                                                         *)
(* Go ints keep Go's 0-based meaning (selectedIdx, matchedIndices, line    *)
(* numbers); a Go slice s is a TLA+ sequence and s[i] is written At(s, i). *)
(* A Go string is a sequence of one-character strings, so that Split,      *)
(* TrimSpace, Contains and ToLower are computed as the library does.       *)
(***************************************************************************)
EXTENDS Integers, Sequences, FiniteSets, TLC

VARIABLES
    impl,      \* which implementation the process runs (the repository holds several)
    lastOp,    \* name of the handler that ran last
    m,         \* Model (model.go)
    added,     \* history: every record handed to the stream store, in order
    vm,        \* VirtualModel (model_v2.go)
    um,        \* UnifiedModel (unified_model.go)
    fi,        \* FastIndexer parse cache and the result of the last GetLineRange
    ix,        \* an indexing pass in progress (FastIndexer / FileIndexer)
    ing,       \* the stdin ingestion goroutine and its batch slice
    ui,        \* the UI event loop receiving LogBatchMsg
    ps,        \* LogParser: the line handed to ParseLogLine and its outcome
    rc,        \* the two goroutines that run UnifiedModel.applyFilters
    hd,        \* file handles opened by the indexers, and the quit of the UI
    rn,        \* UnifiedModel column rendering: its arguments and outcome
    fa,        \* FastApp (fast_app.go)
    clk        \* the clock, and when g was last pressed

vars == <<impl, lastOp, m, added, vm, um, fi, ix, ing, ui, ps, rc, hd, rn, fa, clk>>

(***************************************************************************)
(* Bounds of the model.                                                    *)
(***************************************************************************)
MaxCap == 2        \* largest config.MaxLines tried
MaxAdds == 4       \* records fed to a stream store in one run
MaxBatch == 2      \* largest LogBatchMsg handed to a model

(***************************************************************************)
(* Go helpers.                                                             *)
(***************************************************************************)
At(s, i) == s[i + 1]

min(a, b) == IF a < b THEN a ELSE b

max(a, b) == IF a > b THEN a ELSE b

Last(s) == s[Len(s)]

\* Go's integer division truncates toward zero.
GoDiv(a, b) == IF a >= 0 THEN a \div b ELSE -((-a) \div b)

\* s[from:to] of Go, 0-based, to exclusive.
Slice(s, from, to) == SubSeq(s, from + 1, to)

\* strings.ToLower on the characters of the model's alphabet.
LowerChar(c) == CASE c = "A" -> "a" [] c = "B" -> "b" [] OTHER -> c

ToLower(s) == [i \in 1..Len(s) |-> LowerChar(s[i])]

\* strings.Contains(text, pat).
Contains(text, pat) ==
    \E k \in 0..(Len(text) - Len(pat)) : SubSeq(text, k + 1, k + Len(pat)) = pat

\* strings.TrimSpace.
RECURSIVE TrimLeft(_)
TrimLeft(s) == IF s # <<>> /\ Head(s) = " " THEN TrimLeft(Tail(s)) ELSE s

RECURSIVE TrimRight(_)
TrimRight(s) ==
    IF s # <<>> /\ Last(s) = " " THEN TrimRight(SubSeq(s, 1, Len(s) - 1)) ELSE s

TrimSpace(s) == TrimRight(TrimLeft(s))

\* strings.Split(s, ","): Split("") is one empty item.
RECURSIVE SplitFrom(_, _)
SplitFrom(s, cur) ==
    IF s = <<>> THEN <<cur>>
    ELSE IF Head(s) = "," THEN <<cur>> \o SplitFrom(Tail(s), <<>>)
    ELSE SplitFrom(Tail(s), Append(cur, Head(s)))

Split(s) == SplitFrom(s, <<>>)

\* The "Clean up patterns" loops: every item trimmed in place.
CleanPatterns(value) == LET p == Split(value) IN [i \in 1..Len(p) |-> TrimSpace(p[i])]

(***************************************************************************)
(* regexp.  Over the model's alphabet a pattern is a literal, except that  *)
(* one holding "(" does not compile (missing closing parenthesis).  A      *)
(* compiled pattern remembers whether "(?i)" was put in front of it.       *)
(***************************************************************************)
Compiles(pattern) == \A i \in 1..Len(pattern) : pattern[i] # "("

Compile(pattern, caseSensitive) == [pat |-> pattern, ci |-> ~caseSensitive]

MatchString(re, text) ==
    IF re.ci THEN Contains(ToLower(text), ToLower(re.pat)) ELSE Contains(text, re.pat)

\* The "Compile regex patterns if needed" loops of Model.applyFilters.
RECURSIVE CompileAll(_, _)
CompileAll(patterns, caseSensitive) ==
    IF patterns = <<>> THEN <<>>
    ELSE LET p == Head(patterns)
             rest == CompileAll(Tail(patterns), caseSensitive)
         IN IF p # <<>> /\ Compiles(p) THEN <<Compile(p, caseSensitive)>> \o rest ELSE rest

(***************************************************************************)
(* LogEntry and CircularBuffer (types.go).                                 *)
(***************************************************************************)
Levels == {"DEBUG", "INFO", "WARN", "ERROR"}

Entry(level, message) == [Level |-> level, Message |-> message]

\* The zero LogEntry a fresh slice holds: LogLevel 0 is DEBUG.
ZeroEntry == Entry("DEBUG", <<>>)

NewCircularBuffer(maxSize) ==
    [entries |-> [i \in 1..maxSize |-> ZeroEntry], head |-> 0, tail |-> 0,
     size |-> 0, maxSize |-> maxSize]

CircularBuffer_Add_NoEvict(cb, entry) ==
    [cb EXCEPT !.entries[cb.head + 1] = entry,
               !.head = (cb.head + 1) % cb.maxSize,
               !.size = IF cb.size < cb.maxSize THEN cb.size + 1 ELSE cb.size]

CircularBuffer_Add(cb, entry) ==
    [cb EXCEPT !.entries[cb.head + 1] = entry,
               !.head = (cb.head + 1) % cb.maxSize,
               !.size = IF cb.size < cb.maxSize THEN cb.size + 1 ELSE cb.size,
               !.tail = IF cb.size < cb.maxSize THEN cb.tail ELSE (cb.tail + 1) % cb.maxSize]

CircularBuffer_GetAll(cb) ==
    [i \in 1..cb.size |-> cb.entries[((cb.tail + i - 1) % cb.maxSize) + 1]]

RECURSIVE AddAll(_, _)
AddAll(cb, entries) ==
    IF entries = <<>> THEN cb
    ELSE AddAll(CircularBuffer_Add(cb, Head(entries)), Tail(entries))

(***************************************************************************)
(* Model (model.go): the stream-mode model over a CircularBuffer.          *)
(***************************************************************************)
NewModelFields(maxLines, include, exclude) ==
    [buffer |-> NewCircularBuffer(maxLines), entries |-> <<>>,
     filteredEntries |-> <<>>, matchedIndices |-> <<>>, currentMatchIdx |-> -1,
     selectedIdx |-> 0, scrollOffset |-> 0, height |-> 0, tailing |-> FALSE,
     includeInput |-> include, excludeInput |-> exclude,
     useRegex |-> FALSE, caseSensitive |-> FALSE,
     showDebug |-> TRUE, showInfo |-> TRUE, showWarn |-> TRUE, showError |-> TRUE,
     lastGPress |-> 0]

Model_shouldShowLevel(mm, level) ==
    CASE level = "DEBUG" -> mm.showDebug
      [] level = "INFO" -> mm.showInfo
      [] level = "WARN" -> mm.showWarn
      [] level = "ERROR" -> mm.showError
      [] OTHER -> TRUE

Model_getLogViewHeight(mm) == mm.height - 10

Model_adjustScrollOffset(mm) ==
    LET viewHeight == Model_getLogViewHeight(mm) IN
    IF mm.selectedIdx < mm.scrollOffset
    THEN [mm EXCEPT !.scrollOffset = mm.selectedIdx]
    ELSE IF mm.selectedIdx >= mm.scrollOffset + viewHeight
    THEN [mm EXCEPT !.scrollOffset = mm.selectedIdx - viewHeight + 1]
    ELSE mm

\* The inner "for _, pattern := range patterns" of the simple string matching.
Model_anyPatternContains(mm, patterns, message) ==
    \E i \in 1..Len(patterns) :
        /\ patterns[i] # <<>>
        /\ IF mm.caseSensitive
           THEN Contains(message, patterns[i])
           ELSE Contains(ToLower(message), ToLower(patterns[i]))

\* model.go 1557-1589: the exclude check of one entry.
Model_excluded(mm, message) ==
    LET excludePatterns == CleanPatterns(mm.excludeInput)
        excludeRegexes == IF mm.useRegex
                          THEN CompileAll(excludePatterns, mm.caseSensitive) ELSE <<>>
    IN /\ Len(excludePatterns) > 0 /\ excludePatterns[1] # <<>>
       /\ IF mm.useRegex
          THEN \E i \in 1..Len(excludeRegexes) : MatchString(excludeRegexes[i], message)
          ELSE Model_anyPatternContains(mm, excludePatterns, message)

\* model.go 1595-1627: the include check of one entry.
Model_matched(mm, message) ==
    LET includePatterns == CleanPatterns(mm.includeInput)
        includeRegexes == IF mm.useRegex
                          THEN CompileAll(includePatterns, mm.caseSensitive) ELSE <<>>
    IN /\ Len(includePatterns) > 0 /\ includePatterns[1] # <<>>
       /\ IF mm.useRegex
          THEN \E i \in 1..Len(includeRegexes) : MatchString(includeRegexes[i], message)
          ELSE Model_anyPatternContains(mm, includePatterns, message)

\* model.go 1551-1592: whether the loop appends the entry to filteredEntries.
Model_keeps(mm, entry) ==
    /\ Model_shouldShowLevel(mm, entry.Level)
    /\ ~Model_excluded(mm, entry.Message)

\* The loop of Model.applyFilters as a left fold: acc is <<filteredEntries, matchedIndices>>.
RECURSIVE Model_filterLoop(_, _, _)
Model_filterLoop(mm, entries, acc) ==
    IF entries = <<>> THEN acc
    ELSE LET entry == Head(entries) IN
         IF ~Model_keeps(mm, entry)
         THEN Model_filterLoop(mm, Tail(entries), acc)
         ELSE LET filtered == Append(acc[1], entry)
                  filteredIdx == Len(filtered) - 1
                  matches == IF Model_matched(mm, entry.Message)
                             THEN Append(acc[2], filteredIdx) ELSE acc[2]
              IN Model_filterLoop(mm, Tail(entries), <<filtered, matches>>)

\* model.go 1630-1651: selection after the loop.
Model_adjustSelection(mm) ==
    LET n == Len(mm.filteredEntries)
        s1 == IF mm.selectedIdx >= n THEN n - 1 ELSE mm.selectedIdx
        s2 == IF s1 < 0 THEN 0 ELSE s1
        m2 == [mm EXCEPT !.selectedIdx = s2]
        m3 == IF Len(mm.matchedIndices) > 0
              THEN Model_adjustScrollOffset(
                       [m2 EXCEPT !.currentMatchIdx = Len(mm.matchedIndices) - 1,
                                  !.selectedIdx = Last(mm.matchedIndices)])
              ELSE [m2 EXCEPT !.currentMatchIdx = -1]
    IN IF m3.tailing /\ n > 0 /\ Len(mm.matchedIndices) = 0
       THEN Model_adjustScrollOffset([m3 EXCEPT !.selectedIdx = n - 1])
       ELSE m3

Model_applyFilters(mm) ==
    LET r == Model_filterLoop(mm, mm.entries, <<<<>>, <<>>>>)
    IN Model_adjustSelection([mm EXCEPT !.filteredEntries = r[1], !.matchedIndices = r[2]])

\* A variant without the tail jump that follows applyFilters.
Model_AddLogBatch_NoTail(mm, entries) ==
    IF entries = <<>> THEN mm
    ELSE LET b == AddAll(mm.buffer, entries)
         IN Model_applyFilters([mm EXCEPT !.buffer = b, !.entries = CircularBuffer_GetAll(b)])

\* model.go 1477-1501.  AddLogEntry (1462-1475) is the same with one entry.
Model_AddLogBatch(mm, entries) ==
    IF entries = <<>> THEN mm
    ELSE LET b == AddAll(mm.buffer, entries)
             m1 == Model_applyFilters(
                       [mm EXCEPT !.buffer = b, !.entries = CircularBuffer_GetAll(b)])
         IN IF m1.tailing /\ Len(m1.filteredEntries) > 0
            THEN Model_adjustScrollOffset(
                     [m1 EXCEPT !.selectedIdx = Len(m1.filteredEntries) - 1])
            ELSE m1

Model_AddLogEntry(mm, entry) == Model_AddLogBatch(mm, <<entry>>)

\* updateRightPanel (model.go 364-425), the keys that move the selection.
Model_keyUp(mm) ==
    LET m1 == IF mm.selectedIdx > 0
              THEN Model_adjustScrollOffset([mm EXCEPT !.selectedIdx = mm.selectedIdx - 1])
              ELSE mm
    IN [m1 EXCEPT !.tailing = FALSE]

Model_keyDown(mm) ==
    IF mm.selectedIdx < Len(mm.filteredEntries) - 1
    THEN Model_adjustScrollOffset([mm EXCEPT !.selectedIdx = mm.selectedIdx + 1])
    ELSE mm

Model_keyHome(mm) == [mm EXCEPT !.selectedIdx = 0, !.scrollOffset = 0, !.tailing = FALSE]

Model_keyEnd(mm) ==
    Model_adjustScrollOffset([mm EXCEPT !.selectedIdx = Len(mm.filteredEntries) - 1])

Model_keyShiftG(mm) ==
    [Model_adjustScrollOffset([mm EXCEPT !.selectedIdx = Len(mm.filteredEntries) - 1])
        EXCEPT !.tailing = TRUE]

\* "ctrl+d" and "ctrl+u": half a page, one step at the least.
Model_pageSize(mm) == max(1, GoDiv(Model_getLogViewHeight(mm), 2))

Model_keyCtrlD(mm) ==
    Model_adjustScrollOffset(
        [mm EXCEPT !.selectedIdx =
            IF mm.selectedIdx < Len(mm.filteredEntries) - 1
            THEN min(mm.selectedIdx + Model_pageSize(mm), Len(mm.filteredEntries) - 1)
            ELSE mm.selectedIdx])

Model_keyCtrlU(mm) ==
    Model_adjustScrollOffset(
        [mm EXCEPT !.selectedIdx =
            IF mm.selectedIdx > 0
            THEN max(mm.selectedIdx - Model_pageSize(mm), 0)
            ELSE mm.selectedIdx])

\* "g" pressed twice within 500 ms (model.go 409-413).
Model_keyGG(mm) ==
    [mm EXCEPT !.selectedIdx = 0, !.scrollOffset = 0, !.tailing = FALSE, !.lastGPress = 0]

(***************************************************************************)
(* UnifiedModel (unified_model.go): the file-mode model over a FastIndexer.*)
(* file is what indexer.GetLineRange(i, i+1) yields for each line i: the   *)
(* parsed line.  overflow and passes are history: the goroutine's stack    *)
(* overflowed (the process died), and how many passes over the lines the   *)
(* running handler has made.                                               *)
(***************************************************************************)
MaxStack == 3      \* nested applyFilters calls the goroutine's stack holds

NewUnifiedModelFields(include, exclude) ==
    [hasIndexer |-> FALSE, indexing |-> FALSE, file |-> <<>>, totalLines |-> 0,
     visibleEntries |-> <<>>, viewportStart |-> 0, viewportHeight |-> 40,
     selectedIdx |-> 0, height |-> 0, tailing |-> TRUE,
     filteredIndices |-> <<>>, matchedIndices |-> <<>>, currentMatchIdx |-> 0,
     includeInput |-> include, excludeInput |-> exclude,
     useRegex |-> FALSE, caseSensitive |-> FALSE,
     showDebug |-> TRUE, showInfo |-> TRUE, showWarn |-> TRUE, showError |-> TRUE,
     entries |-> <<>>, filteredEntries |-> <<>>,
     lastGPress |-> 0,
     overflow |-> FALSE, passes |-> 0, panic |-> FALSE]

Unified_shouldShowLevel(u, level) ==
    CASE level = "ERROR" -> u.showError
      [] level = "WARN" -> u.showWarn
      [] level = "INFO" -> u.showInfo
      [] level = "DEBUG" -> u.showDebug
      [] OTHER -> TRUE

\* unified_model.go 816-835: a pattern that does not compile matches nothing.
Unified_matchesPattern(u, text, pattern) ==
    IF u.useRegex
    THEN Compiles(pattern) /\ MatchString(Compile(pattern, u.caseSensitive), text)
    ELSE IF u.caseSensitive
    THEN Contains(text, pattern)
    ELSE Contains(ToLower(text), ToLower(pattern))

\* unified_model.go 754-764.
Unified_excluded(u, message) ==
    LET excludePatterns == CleanPatterns(u.excludeInput) IN
    \E i \in 1..Len(excludePatterns) :
        excludePatterns[i] # <<>> /\ Unified_matchesPattern(u, message, excludePatterns[i])

\* unified_model.go 768-775: some non-empty include pattern matches.
Unified_matched(u, message) ==
    LET includePatterns == CleanPatterns(u.includeInput) IN
    \E i \in 1..Len(includePatterns) :
        includePatterns[i] # <<>> /\ Unified_matchesPattern(u, message, includePatterns[i])

\* unified_model.go 744-783 as a left fold over the line numbers i..totalLines-1:
\* acc is <<filteredIndices, matchedIndices>>.
RECURSIVE Unified_filterLoop(_, _, _)
Unified_filterLoop(u, i, acc) ==
    IF i >= u.totalLines THEN acc
    ELSE LET entry == At(u.file, i) IN
         IF ~Unified_shouldShowLevel(u, entry.Level) \/ Unified_excluded(u, entry.Message)
         THEN Unified_filterLoop(u, i + 1, acc)
         ELSE IF u.includeInput # <<>>
         THEN IF Unified_matched(u, entry.Message)
              THEN Unified_filterLoop(u, i + 1,
                       <<Append(acc[1], i), Append(acc[2], Len(acc[1]))>>)
              ELSE Unified_filterLoop(u, i + 1, acc)
         ELSE Unified_filterLoop(u, i + 1, <<Append(acc[1], i), acc[2]>>)

\* unified_model.go 700-720: the entries of the viewport [start, end).
Unified_visible(u, start, end) ==
    LET last == min(end, Len(u.filteredIndices)) IN
    [k \in 1..max(0, last - start) |-> At(u.file, At(u.filteredIndices, start + k - 1))]

\* applyFilters (724-793) and loadVisibleLines (686-721) call each other; depth is
\* the number of applyFilters frames on the stack.
RECURSIVE Unified_applyFiltersAt(_, _)
RECURSIVE Unified_loadVisibleLinesAt(_, _)
Unified_applyFiltersAt(u, depth) ==
    IF ~u.hasIndexer THEN u
    ELSE LET r == Unified_filterLoop(u, 0, <<<<>>, <<>>>>)
             u1 == [u EXCEPT !.filteredIndices = r[1], !.matchedIndices = r[2],
                             !.passes = u.passes + 1]
             u2 == IF u1.viewportStart >= Len(u1.filteredIndices)
                   THEN [u1 EXCEPT !.viewportStart = 0, !.selectedIdx = 0]
                   ELSE u1
         IN Unified_loadVisibleLinesAt(u2, depth)

Unified_loadVisibleLinesAt(u, depth) ==
    IF ~u.hasIndexer \/ u.indexing THEN u
    ELSE LET start == u.viewportStart
             end == start + u.viewportHeight
             u1 == IF Len(u.filteredIndices) # 0 THEN u
                   ELSE IF depth >= MaxStack THEN [u EXCEPT !.overflow = TRUE]
                   ELSE Unified_applyFiltersAt(u, depth + 1)
         IN IF u1.overflow THEN u1
            ELSE [u1 EXCEPT !.visibleEntries = Unified_visible(u1, start, end)]

\* A handler's call of applyFilters / loadVisibleLines: the first frame.
Unified_applyFilters(u) == Unified_applyFiltersAt([u EXCEPT !.passes = 0], 1)

Unified_loadVisibleLines(u) == Unified_loadVisibleLinesAt([u EXCEPT !.passes = 0], 0)

\* unified_model.go 1049-1057; lines is the indexer's file, parsed.
Unified_SetIndexer(u, lines) ==
    Unified_applyFilters([u EXCEPT !.hasIndexer = TRUE, !.file = lines,
                                   !.totalLines = Len(lines), !.indexing = FALSE])

\* Update, tea.WindowSizeMsg (160-177).
Unified_WindowSize(u, height) ==
    Unified_loadVisibleLines([u EXCEPT !.height = height, !.viewportHeight = height - 10])

\* unified_model.go 902-912.
Unified_scrollDown(u) ==
    LET s == u.selectedIdx + 1 IN
    IF s >= u.viewportHeight \/ s >= Len(u.visibleEntries)
    THEN LET v1 == u.viewportStart + 1
             v2 == IF v1 + u.viewportHeight > Len(u.filteredIndices)
                   THEN max(0, Len(u.filteredIndices) - u.viewportHeight) ELSE v1
         IN Unified_loadVisibleLines(
                [u EXCEPT !.selectedIdx = min(u.viewportHeight - 1, Len(u.visibleEntries) - 1),
                          !.viewportStart = v2])
    ELSE [u EXCEPT !.selectedIdx = s]

\* unified_model.go 914-924.
Unified_scrollUp(u) ==
    IF u.selectedIdx - 1 < 0
    THEN Unified_loadVisibleLines(
             [u EXCEPT !.selectedIdx = 0, !.viewportStart = max(0, u.viewportStart - 1)])
    ELSE [u EXCEPT !.selectedIdx = u.selectedIdx - 1]

\* unified_model.go 1000-1004.
Unified_scrollToTop(u) ==
    Unified_loadVisibleLines([u EXCEPT !.viewportStart = 0, !.selectedIdx = 0])

\* unified_model.go 1006-1012.
Unified_scrollToBottom(u) ==
    IF Len(u.filteredIndices) > 0
    THEN Unified_loadVisibleLines(
             [u EXCEPT !.viewportStart = max(0, Len(u.filteredIndices) - u.viewportHeight),
                       !.selectedIdx = min(u.viewportHeight - 1, Len(u.filteredIndices) - 1)])
    ELSE u

\* The tail of scrollHalfPageDown and scrollHalfPageUp: the viewport moves to
\* newStart, the selection stays inside it, the lines are loaded again when
\* the viewport moved.
Unified_moveViewport(u, newStart) ==
    LET maxVisibleIdx == min(u.viewportHeight - 1, Len(u.filteredIndices) - newStart - 1)
        u1 == [u EXCEPT !.viewportStart = newStart,
                        !.selectedIdx = IF u.selectedIdx > maxVisibleIdx
                                        THEN max(0, maxVisibleIdx) ELSE u.selectedIdx]
    IN IF newStart # u.viewportStart THEN Unified_loadVisibleLines(u1) ELSE u1

\* unified_model.go 926-962.
Unified_scrollHalfPageDown(u) ==
    LET jump == max(1, GoDiv(u.viewportHeight, 2))
        maxStart == max(0, Len(u.filteredIndices) - u.viewportHeight)
        newStart == min(u.viewportStart + jump, maxStart)
    IN IF Len(u.filteredIndices) = 0 THEN u
       ELSE IF u.viewportStart = maxStart /\ Len(u.filteredIndices) > u.viewportHeight
       THEN [u EXCEPT !.selectedIdx =
                min(u.viewportHeight - 1, Len(u.filteredIndices) - u.viewportStart - 1)]
       ELSE Unified_moveViewport(u, newStart)

\* unified_model.go 964-998.
Unified_scrollHalfPageUp(u) ==
    LET jump == max(1, GoDiv(u.viewportHeight, 2))
        newStart == max(u.viewportStart - jump, 0)
    IN IF Len(u.filteredIndices) = 0 THEN u
       ELSE IF u.viewportStart = 0 THEN [u EXCEPT !.selectedIdx = 0]
       ELSE Unified_moveViewport(u, newStart)

\* updateRightPanel "t" (unified_model.go 384-389): the tailing toggle.
Unified_keyT(u) ==
    IF u.tailing THEN [u EXCEPT !.tailing = FALSE]
    ELSE Unified_scrollToBottom([u EXCEPT !.tailing = TRUE])

(***************************************************************************)
(* Inputs of the filter specification.                                     *)
(***************************************************************************)
\* What the include and the exclude input may hold; closed under backspace.
IncludeTexts == {<<>>, <<"b">>, <<" ">>, <<",">>, <<",", "b">>}

ExcludeTexts == {<<>>, <<"b">>, <<",">>, <<",", "b">>, <<"(">>}

TypedChars == {"b", ",", "(", " "}

\* The records of a source, parsed.
EntryLists ==
    {<<>>,
     <<Entry("INFO", <<"a">>), Entry("ERROR", <<"b">>), Entry("WARN", <<"a", "B">>),
       Entry("DEBUG", <<"c">>)>>,
     <<Entry("ERROR", <<"b">>), Entry("INFO", <<"b", "(">>)>>}

Heights == {12}

\* Left panel items toggled: 2 regex, 3 case, 6 INFO (4 ERROR, 5 WARN and
\* 7 DEBUG are handled alike).
ToggleItems == {2, 3, 6}

(***************************************************************************)
(* Components that a specification leaves alone stay in these states.      *)
(***************************************************************************)
Unused == [pc |-> "unused"]

ModelUnused == NewModelFields(1, <<>>, <<>>)

UnifiedUnused == NewUnifiedModelFields(<<>>, <<>>)

(***************************************************************************)
(* Filter specification: one source loaded, then the filter settings are   *)
(* edited and the view is scrolled.  Model holds the records of one batch; *)
(* UnifiedModel gets its indexer from the ingestion goroutine.             *)
(***************************************************************************)
InitFilter ==
    /\ impl \in {"Model", "UnifiedModel"}
    /\ lastOp = "init"
    /\ ps = Unused /\ rc = Unused /\ hd = Unused /\ rn = Unused
    /\ fa = Unused /\ clk = Unused
    /\ \E entries \in EntryLists :
          /\ added = entries
          /\ m = IF impl = "Model"
                 THEN Model_AddLogBatch(
                          Model_applyFilters(NewModelFields(max(1, Len(entries)), <<>>, <<>>)), entries)
                 ELSE ModelUnused
    /\ um = UnifiedUnused
    /\ vm = Unused /\ fi = Unused /\ ix = Unused /\ ing = Unused /\ ui = Unused

\* A keystroke in an active filter input (Update, edit mode, default branch):
\* the input takes the key, then applyFilters.
TextAfterKey(text, key) ==
    IF key = "backspace"
    THEN (IF text = <<>> THEN text ELSE SubSeq(text, 1, Len(text) - 1))
    ELSE Append(text, key)

M_TypeInclude(key) ==
    /\ impl = "Model"
    /\ TextAfterKey(m.includeInput, key) \in IncludeTexts
    /\ m' = Model_applyFilters([m EXCEPT !.includeInput = TextAfterKey(m.includeInput, key)])
    /\ lastOp' = "rebuild"
    /\ UNCHANGED <<impl, added, vm, um, fi, ix, ing, ui, ps, rc, hd, rn, fa, clk>>

M_TypeExclude(key) ==
    /\ impl = "Model"
    /\ TextAfterKey(m.excludeInput, key) \in ExcludeTexts
    /\ m' = Model_applyFilters([m EXCEPT !.excludeInput = TextAfterKey(m.excludeInput, key)])
    /\ lastOp' = "rebuild"
    /\ UNCHANGED <<impl, added, vm, um, fi, ix, ing, ui, ps, rc, hd, rn, fa, clk>>

\* updateLeftPanel, " ": the checkbox under the cursor flips, then applyFilters.
Model_toggle(mm, item) ==
    Model_applyFilters(
        CASE item = 2 -> [mm EXCEPT !.useRegex = ~mm.useRegex]
          [] item = 3 -> [mm EXCEPT !.caseSensitive = ~mm.caseSensitive]
          [] item = 4 -> [mm EXCEPT !.showError = ~mm.showError]
          [] item = 5 -> [mm EXCEPT !.showWarn = ~mm.showWarn]
          [] item = 6 -> [mm EXCEPT !.showInfo = ~mm.showInfo]
          [] item = 7 -> [mm EXCEPT !.showDebug = ~mm.showDebug])

M_Toggle(item) ==
    /\ impl = "Model"
    /\ m' = Model_toggle(m, item)
    /\ lastOp' = "rebuild"
    /\ UNCHANGED <<impl, added, vm, um, fi, ix, ing, ui, ps, rc, hd, rn, fa, clk>>

Model_key(mm, key) ==
    CASE key = "up" -> Model_keyUp(mm)
      [] key = "down" -> Model_keyDown(mm)
      [] key = "home" -> Model_keyHome(mm)
      [] key = "end" -> Model_keyEnd(mm)
      [] key = "G" -> Model_keyShiftG(mm)
      [] key = "ctrl+d" -> Model_keyCtrlD(mm)
      [] key = "ctrl+u" -> Model_keyCtrlU(mm)
      [] key = "gg" -> Model_keyGG(mm)

ModelKeys == {"up", "down", "home", "end", "G", "ctrl+d", "ctrl+u", "gg"}

M_Key(key) ==
    /\ impl = "Model"
    /\ m' = Model_key(m, key)
    /\ lastOp' = "key"
    /\ UNCHANGED <<impl, added, vm, um, fi, ix, ing, ui, ps, rc, hd, rn, fa, clk>>

\* Update, tea.WindowSizeMsg (model.go 159-173).
M_WindowSize(height) ==
    /\ impl = "Model"
    /\ m' = [m EXCEPT !.height = height]
    /\ lastOp' = "resize"
    /\ UNCHANGED <<impl, added, vm, um, fi, ix, ing, ui, ps, rc, hd, rn, fa, clk>>

\* UnifiedApp.indexFile (part_001 62-88) once the indexing pass is over.
U_SetIndexer ==
    /\ impl = "UnifiedModel" /\ ~um.hasIndexer /\ ~um.overflow
    /\ um' = Unified_SetIndexer(um, added)
    /\ lastOp' = "rebuild"
    /\ UNCHANGED <<impl, added, m, vm, fi, ix, ing, ui, ps, rc, hd, rn, fa, clk>>

U_TypeInclude(key) ==
    /\ impl = "UnifiedModel" /\ ~um.overflow
    /\ TextAfterKey(um.includeInput, key) \in IncludeTexts
    /\ um' = Unified_applyFilters(
                 [um EXCEPT !.includeInput = TextAfterKey(um.includeInput, key)])
    /\ lastOp' = "rebuild"
    /\ UNCHANGED <<impl, added, m, vm, fi, ix, ing, ui, ps, rc, hd, rn, fa, clk>>

U_TypeExclude(key) ==
    /\ impl = "UnifiedModel" /\ ~um.overflow
    /\ TextAfterKey(um.excludeInput, key) \in ExcludeTexts
    /\ um' = Unified_applyFilters(
                 [um EXCEPT !.excludeInput = TextAfterKey(um.excludeInput, key)])
    /\ lastOp' = "rebuild"
    /\ UNCHANGED <<impl, added, m, vm, fi, ix, ing, ui, ps, rc, hd, rn, fa, clk>>

\* updateLeftPanel, " " / enter (unified_model.go 302-323).
Unified_toggle(u, item) ==
    Unified_applyFilters(
        CASE item = 2 -> [u EXCEPT !.useRegex = ~u.useRegex]
          [] item = 3 -> [u EXCEPT !.caseSensitive = ~u.caseSensitive]
          [] item = 4 -> [u EXCEPT !.showError = ~u.showError]
          [] item = 5 -> [u EXCEPT !.showWarn = ~u.showWarn]
          [] item = 6 -> [u EXCEPT !.showInfo = ~u.showInfo]
          [] item = 7 -> [u EXCEPT !.showDebug = ~u.showDebug])

U_Toggle(item) ==
    /\ impl = "UnifiedModel" /\ ~um.overflow
    /\ um' = Unified_toggle(um, item)
    /\ lastOp' = "rebuild"
    /\ UNCHANGED <<impl, added, m, vm, fi, ix, ing, ui, ps, rc, hd, rn, fa, clk>>

Unified_key(u, key) ==
    CASE key = "up" -> Unified_scrollUp(u)
      [] key = "down" -> Unified_scrollDown(u)
      [] key = "gg" -> Unified_scrollToTop(u)
      [] key = "G" -> Unified_scrollToBottom(u)
      [] key = "ctrl+d" -> Unified_scrollHalfPageDown(u)
      [] key = "ctrl+u" -> Unified_scrollHalfPageUp(u)
      [] key = "t" -> Unified_keyT(u)

UnifiedKeys == {"up", "down", "gg", "G", "ctrl+d", "ctrl+u", "t"}

U_Key(key) ==
    /\ impl = "UnifiedModel" /\ ~um.overflow
    /\ um' = Unified_key(um, key)
    /\ lastOp' = "key"
    /\ UNCHANGED <<impl, added, m, vm, fi, ix, ing, ui, ps, rc, hd, rn, fa, clk>>

U_WindowSize(height) ==
    /\ impl = "UnifiedModel" /\ ~um.overflow
    /\ um' = Unified_WindowSize(um, height)
    /\ lastOp' = "resize"
    /\ UNCHANGED <<impl, added, m, vm, fi, ix, ing, ui, ps, rc, hd, rn, fa, clk>>

NextFilter ==
    \/ \E key \in TypedChars \cup {"backspace"} : M_TypeInclude(key)
    \/ \E key \in TypedChars \cup {"backspace"} : M_TypeExclude(key)
    \/ \E item \in ToggleItems : M_Toggle(item)
    \/ \E key \in ModelKeys : M_Key(key)
    \/ \E height \in Heights : M_WindowSize(height)
    \/ U_SetIndexer
    \/ \E key \in TypedChars \cup {"backspace"} : U_TypeInclude(key)
    \/ \E key \in TypedChars \cup {"backspace"} : U_TypeExclude(key)
    \/ \E item \in ToggleItems : U_Toggle(item)
    \/ \E key \in UnifiedKeys : U_Key(key)
    \/ \E height \in Heights : U_WindowSize(height)

SpecFilter == InitFilter /\ [][NextFilter]_vars

(***************************************************************************)
(* What the filter is meant to compute (spec 4.5), stated without the      *)
(* models' own loops.                                                      *)
(***************************************************************************)
PatternMatches(pattern, message, useRegex, caseSensitive) ==
    /\ useRegex => Compiles(pattern)
    /\ IF caseSensitive
       THEN Contains(message, pattern)
       ELSE Contains(ToLower(message), ToLower(pattern))

\* Some non-empty trimmed item of the comma-separated list matches the message.
ListMatches(value, message, useRegex, caseSensitive) ==
    LET items == Split(value) IN
    \E i \in 1..Len(items) :
        /\ TrimSpace(items[i]) # <<>>
        /\ PatternMatches(TrimSpace(items[i]), message, useRegex, caseSensitive)

LevelShown(r, level) ==
    CASE level = "DEBUG" -> r.showDebug
      [] level = "INFO" -> r.showInfo
      [] level = "WARN" -> r.showWarn
      [] level = "ERROR" -> r.showError

\* The records of UnifiedModel's filtered view.
UnifiedFiltered == [j \in 1..Len(um.filteredIndices) |-> At(um.file, um.filteredIndices[j])]

\* C1: exclude dominance.  No record of the filtered view has a message that
\* matches a non-empty trimmed item of the exclude list, wherever the item sits in
\* the list, in Model and in UnifiedModel.
C1_ExcludeDominance ==
    /\ impl = "Model" =>
          \A j \in 1..Len(m.filteredEntries) :
              ~ListMatches(m.excludeInput, m.filteredEntries[j].Message,
                           m.useRegex, m.caseSensitive)
    /\ impl = "UnifiedModel" =>
          \A j \in 1..Len(UnifiedFiltered) :
              ~ListMatches(um.excludeInput, UnifiedFiltered[j].Message,
                           um.useRegex, um.caseSensitive)

\* C2: include non-filtration.  With a non-empty include input, every record that
\* passes the level mask and matches no exclude pattern is in the filtered view,
\* in Model and in UnifiedModel (whose rebuild has returned).
C2_IncludeKeepsRecords ==
    /\ (impl = "Model" /\ m.includeInput # <<>>) =>
          \A k \in 1..Len(m.entries) :
              (/\ LevelShown(m, m.entries[k].Level)
               /\ ~ListMatches(m.excludeInput, m.entries[k].Message,
                               m.useRegex, m.caseSensitive))
              => \E j \in 1..Len(m.filteredEntries) : m.filteredEntries[j] = m.entries[k]
    /\ (impl = "UnifiedModel" /\ um.hasIndexer /\ ~um.overflow /\ um.includeInput # <<>>) =>
          \A i \in 0..(um.totalLines - 1) :
              (/\ LevelShown(um, At(um.file, i).Level)
               /\ ~ListMatches(um.excludeInput, At(um.file, i).Message,
                               um.useRegex, um.caseSensitive))
              => \E j \in 1..Len(um.filteredIndices) : um.filteredIndices[j] = i

\* C10: a filter rebuild of UnifiedModel terminates after one pass over the
\* lines: the handler makes at most one pass and its stack does not overflow.
C10_RebuildOnePass == ~um.overflow /\ um.passes <= 1

(***************************************************************************)
(* VirtualModel (model_v2.go), streaming mode: activeFile is "" and        *)
(* requestVisibleData yields no message.                                   *)
(***************************************************************************)
NewVirtualModelFields(maxLines) ==
    [maxLines |-> maxLines,
     streamBuffer |-> <<>>,
     visibleEntries |-> <<>>,
     totalLines |-> 0,
     viewportStart |-> 0,
     viewportHeight |-> 40,
     selectedIdx |-> 0,
     absoluteIdx |-> 0,
     height |-> 0,
     tailing |-> TRUE,
     panicked |-> FALSE]

\* streamBuffer[start:end] panics when start > end, which a negative
\* viewportHeight (terminal lower than 10 rows) produces.
Virtual_updateVisibleFromStream(v) ==
    IF Len(v.streamBuffer) = 0 THEN v
    ELSE LET start == max(0, Len(v.streamBuffer) - v.viewportHeight)
             end == Len(v.streamBuffer)
         IN IF start > end
            THEN [v EXCEPT !.panicked = TRUE]
            ELSE LET visible == Slice(v.streamBuffer, start, end)
                 IN [v EXCEPT !.visibleEntries = visible,
                              !.viewportStart = start,
                              !.selectedIdx = IF v.tailing THEN Len(visible) - 1
                                              ELSE v.selectedIdx]

Virtual_LogBatch(v, batch) ==
    LET all == v.streamBuffer \o batch
        kept == IF Len(all) > v.maxLines
                THEN Slice(all, Len(all) - v.maxLines, Len(all))
                ELSE all
    IN Virtual_updateVisibleFromStream(
           [v EXCEPT !.streamBuffer = kept, !.totalLines = Len(kept)])

Virtual_WindowSize(v, height) ==
    [v EXCEPT !.height = height, !.viewportHeight = height - 10]

Virtual_clampStart(v, start) ==
    IF start > v.totalLines - v.viewportHeight
    THEN max(0, v.totalLines - v.viewportHeight)
    ELSE start

Virtual_setAbsolute(v) == [v EXCEPT !.absoluteIdx = v.viewportStart + v.selectedIdx]

Virtual_scrollDown(v) ==
    Virtual_setAbsolute(
        IF v.selectedIdx + 1 >= Len(v.visibleEntries)
        THEN [v EXCEPT !.selectedIdx = Len(v.visibleEntries) - 1,
                       !.viewportStart = Virtual_clampStart(v, v.viewportStart + 1)]
        ELSE [v EXCEPT !.selectedIdx = v.selectedIdx + 1])

Virtual_scrollUp(v) ==
    Virtual_setAbsolute(
        IF v.selectedIdx - 1 < 0
        THEN [v EXCEPT !.selectedIdx = 0,
                       !.viewportStart = max(0, v.viewportStart - 1)]
        ELSE [v EXCEPT !.selectedIdx = v.selectedIdx - 1])

Virtual_scrollHalfPageDown(v) ==
    Virtual_setAbsolute(
        [v EXCEPT !.viewportStart =
                      Virtual_clampStart(v, v.viewportStart + GoDiv(v.viewportHeight, 2))])

Virtual_scrollHalfPageUp(v) ==
    Virtual_setAbsolute(
        [v EXCEPT !.viewportStart = max(0, v.viewportStart - GoDiv(v.viewportHeight, 2))])

Virtual_scrollToTop(v) ==
    [v EXCEPT !.viewportStart = 0, !.selectedIdx = 0, !.absoluteIdx = 0]

Virtual_scrollToBottom(v) ==
    [v EXCEPT !.viewportStart = max(0, v.totalLines - v.viewportHeight),
              !.selectedIdx = min(v.viewportHeight - 1, v.totalLines - 1),
              !.absoluteIdx = v.totalLines - 1]

Virtual_key(v, key) ==
    CASE key = "down" -> Virtual_scrollDown(v)
      [] key = "up" -> Virtual_scrollUp(v)
      [] key = "ctrl+d" -> Virtual_scrollHalfPageDown(v)
      [] key = "ctrl+u" -> Virtual_scrollHalfPageUp(v)
      [] key = "G" -> Virtual_scrollToBottom(v)
      [] key = "gg" -> Virtual_scrollToTop(v)

VirtualKeys == {"down", "up", "ctrl+d", "ctrl+u", "G", "gg"}

(***************************************************************************)
(* Stream specification: a piped source feeds batches of records to the    *)
(* running model while the user scrolls, resizes and edits the filter.     *)
(***************************************************************************)
StreamRecords == {Entry("INFO", <<"a">>), Entry("ERROR", <<"b">>)}

\* Non-empty batches (the ingester sends no empty batch).
Batches == UNION {[1..k -> StreamRecords] : k \in 1..MaxBatch}

StreamHeights == {9, 10, 12}

StreamToggleItems == {4}

InitStream ==
    /\ impl \in {"Model", "VirtualModel"}
    /\ lastOp = "init"
    /\ ps = Unused /\ rc = Unused /\ hd = Unused /\ rn = Unused
    /\ fa = Unused /\ clk = Unused
    /\ added = <<>>
    /\ \E maxLines \in 1..MaxCap :
          /\ m = IF impl = "Model"
                 THEN Model_applyFilters(NewModelFields(maxLines, <<>>, <<>>))
                 ELSE ModelUnused
          /\ vm = IF impl = "VirtualModel"
                  THEN NewVirtualModelFields(maxLines)
                  ELSE NewVirtualModelFields(1)
    /\ um = UnifiedUnused
    /\ fi = Unused /\ ix = Unused /\ ing = Unused /\ ui = Unused

\* Update, LogBatchMsg (model.go 277-280).
M_LogBatch(batch) ==
    /\ impl = "Model"
    /\ Len(added) + Len(batch) <= MaxAdds
    /\ m' = Model_AddLogBatch(m, batch)
    /\ added' = added \o batch
    /\ lastOp' = "batch"
    /\ UNCHANGED <<impl, vm, um, fi, ix, ing, ui, ps, rc, hd, rn, fa, clk>>

\* Update, LogEntryMsg (model.go 273-275).
M_LogEntry(entry) ==
    /\ impl = "Model"
    /\ Len(added) + 1 <= MaxAdds
    /\ m' = Model_AddLogEntry(m, entry)
    /\ added' = Append(added, entry)
    /\ lastOp' = "batch"
    /\ UNCHANGED <<impl, vm, um, fi, ix, ing, ui, ps, rc, hd, rn, fa, clk>>

\* Update, LogBatchMsg (model_v2.go 212-227).  A panic ends the program.
V_LogBatch(batch) ==
    /\ impl = "VirtualModel" /\ ~vm.panicked
    /\ Len(added) + Len(batch) <= MaxAdds
    /\ vm' = Virtual_LogBatch(vm, batch)
    /\ added' = added \o batch
    /\ lastOp' = "batch"
    /\ UNCHANGED <<impl, m, um, fi, ix, ing, ui, ps, rc, hd, rn, fa, clk>>

V_WindowSize(height) ==
    /\ impl = "VirtualModel" /\ ~vm.panicked
    /\ vm' = Virtual_WindowSize(vm, height)
    /\ lastOp' = "resize"
    /\ UNCHANGED <<impl, m, added, um, fi, ix, ing, ui, ps, rc, hd, rn, fa, clk>>

V_Key(key) ==
    /\ impl = "VirtualModel" /\ ~vm.panicked
    /\ vm' = Virtual_key(vm, key)
    /\ lastOp' = "key"
    /\ UNCHANGED <<impl, m, added, um, fi, ix, ing, ui, ps, rc, hd, rn, fa, clk>>

NextStream ==
    \/ \E batch \in Batches : M_LogBatch(batch)
    \/ \E entry \in StreamRecords : M_LogEntry(entry)
    \/ \E key \in TypedChars \cup {"backspace"} : M_TypeInclude(key)
    \/ \E item \in StreamToggleItems : M_Toggle(item)
    \/ \E key \in ModelKeys : M_Key(key)
    \/ \E batch \in Batches : V_LogBatch(batch)
    \/ \E height \in StreamHeights : V_WindowSize(height)
    \/ \E key \in VirtualKeys : V_Key(key)

SpecStream == InitStream /\ [][NextStream]_vars

\* The most recent min(Len(hist), n) records of a history, in order.
MostRecent(hist, n) == SubSeq(hist, Len(hist) - min(Len(hist), n) + 1, Len(hist))

C4_StoreIsMostRecent ==
    /\ impl = "Model" =>
          /\ m.buffer.size <= m.buffer.maxSize
          /\ CircularBuffer_GetAll(m.buffer) = MostRecent(added, m.buffer.maxSize)
    /\ impl = "VirtualModel" =>
          /\ Len(vm.streamBuffer) <= vm.maxLines
          /\ vm.streamBuffer = MostRecent(added, vm.maxLines)

\* The circular buffer has wrapped and evicted its oldest records.
C4_Witness ==
    /\ impl = "Model" /\ lastOp = "batch"
    /\ Len(added) > m.buffer.maxSize + 1
    /\ added[1] # Last(added)
    /\ CircularBuffer_GetAll(m.buffer) = MostRecent(added, m.buffer.maxSize)

(***************************************************************************)
(* Ingestion specification: the stdin goroutine (UnifiedApp.streamFromStdin *)
(* in part_001, StreamReader.streamFromStdin / loadSmallFile in app_v2.go)  *)
(* and the UI event loop.  The goroutine appends parsed lines to its batch  *)
(* slice, sends the slice with program.Send (a rendezvous on an unbuffered  *)
(* channel) and goes on with batch[:0], which shares the backing array of   *)
(* the slice just sent.  The UI handler reads the sent slice element by     *)
(* element without synchronisation, so reads and appends interleave.        *)
(* ing.input is the sequence of parsed input lines.                         *)
(***************************************************************************)
BatchLimit == 2    \* len(batch) that forces a flush (100 or 200 in the source)

NoEntry == [Level |-> "NONE", Message |-> <<>>]

Inputs == UNION {[1..k -> StreamRecords] : k \in 1..MaxAdds}

InitIngest ==
    /\ impl \in {"Model", "VirtualModel", "UnifiedModel"}
    /\ lastOp = "init"
    /\ ps = Unused /\ rc = Unused /\ hd = Unused /\ rn = Unused
    /\ fa = Unused /\ clk = Unused
    /\ added = <<>>
    /\ m = IF impl = "Model"
           THEN Model_applyFilters(NewModelFields(MaxAdds, <<>>, <<>>))
           ELSE ModelUnused
    /\ vm = IF impl = "VirtualModel"
            THEN NewVirtualModelFields(MaxAdds)
            ELSE NewVirtualModelFields(1)
    /\ um = NewUnifiedModelFields(<<>>, <<>>)
    /\ \E input \in Inputs :
          ing = [pc |-> "scan", input |-> input, avail |-> 0, next |-> 0,
                 arr |-> [i \in 1..BatchLimit |-> NoEntry], len |-> 0,
                 elapsed |-> FALSE, failed |-> FALSE, atEof |-> -1]
    /\ ui = [pc |-> "idle", n |-> 0, i |-> 0, got |-> <<>>, handled |-> 0]
    /\ fi = Unused /\ ix = Unused

\* The process at the other end of the pipe writes its next line, whenever
\* it pleases; ing.avail counts the lines written.  It closes the pipe after
\* the last one.
P_Write ==
    /\ ing.avail < Len(ing.input)
    /\ ing' = [ing EXCEPT !.avail = ing.avail + 1]
    /\ UNCHANGED <<impl, lastOp, m, added, vm, um, fi, ix, ui, ps, rc, hd, rn, fa, clk>>

\* Time passes while the goroutine is in its loop: from now on
\* time.Since(lastSend) exceeds the flush interval (20 or 30 ms).
I_Tick ==
    /\ ing.pc = "scan" /\ ~ing.elapsed
    /\ ing' = [ing EXCEPT !.elapsed = TRUE]
    /\ UNCHANGED <<impl, lastOp, m, added, vm, um, fi, ix, ui, ps, rc, hd, rn, fa, clk>>

\* One turn of the scan loop, once scanner.Scan has a line: parse it, append
\* it to the batch (a write into the backing array) and decide whether to
\* flush, on the size of the batch or on the flush timer.
I_Scan ==
    /\ ing.pc = "scan" /\ ing.next < ing.avail
    /\ ing' = [ing EXCEPT !.arr[ing.len + 1] = At(ing.input, ing.next),
                          !.len = ing.len + 1,
                          !.next = ing.next + 1,
                          !.pc = IF ing.len + 1 >= BatchLimit \/ ing.elapsed
                                 THEN "send" ELSE "scan"]
    /\ UNCHANGED <<impl, lastOp, m, added, vm, um, fi, ix, ui, ps, rc, hd, rn, fa, clk>>

\* The scan loop left at EOF without the send of the remaining batch.
I_Eof_NoFlush ==
    /\ ing.pc = "scan" /\ ing.next = Len(ing.input)
    /\ ing' = [ing EXCEPT !.pc = "done", !.atEof = ing.len]
    /\ UNCHANGED <<impl, lastOp, m, added, vm, um, fi, ix, ui, ps, rc, hd, rn, fa, clk>>

\* The scanner reports EOF: the remaining batch is sent, if any.  ing.atEof
\* is history: the size of the pending batch when EOF was seen (-1 before).
I_Eof ==
    /\ ing.pc = "scan" /\ ing.next = Len(ing.input)
    /\ ing' = [ing EXCEPT !.pc = IF ing.len > 0 THEN "sendLast" ELSE "done",
                          !.atEof = ing.len]
    /\ UNCHANGED <<impl, lastOp, m, added, vm, um, fi, ix, ui, ps, rc, hd, rn, fa, clk>>

\* StreamReader.streamFromStdin (app_v2.go, behind VirtualModel) reads with
\* reader.ReadString; the other ingesters read with a bufio.Scanner.
ReadsWithReadString(i) == i = "VirtualModel"

\* A read of the pipe fails with an error other than EOF.
\* StreamReader.streamFromStdin returns the error at once (app_v2.go 223-225),
\* before the line read so far is parsed and without sending the pending
\* batch; its caller discards the returned error.  With a Scanner, Scan
\* returns false, the loop ends as on EOF and the remaining batch is sent;
\* scanner.Err is never looked at.  Neither loop reads the pipe again.
I_Error ==
    /\ ing.pc = "scan" /\ ing.next < Len(ing.input)
    /\ ing' = [ing EXCEPT !.failed = TRUE,
                          !.pc = IF ReadsWithReadString(impl) \/ ing.len = 0
                                 THEN "done" ELSE "sendLast"]
    /\ UNCHANGED <<impl, lastOp, m, added, vm, um, fi, ix, ui, ps, rc, hd, rn, fa, clk>>

\* program.Send meets the event loop's receive: the UI now holds a slice of
\* ing.len elements over the same array, and the goroutine resets its batch.
I_Send ==
    /\ ing.pc \in {"send", "sendLast"} /\ ui.pc = "idle"
    /\ ui' = [ui EXCEPT !.pc = "reading", !.n = ing.len, !.i = 0, !.got = <<>>]
    /\ ing' = [ing EXCEPT !.len = 0,
                          !.elapsed = FALSE,
                          !.pc = IF ing.pc = "send" THEN "scan" ELSE "done"]
    /\ UNCHANGED <<impl, lastOp, m, added, vm, um, fi, ix, ps, rc, hd, rn, fa, clk>>

\* The handler reads one element of the slice it received (the range loop of
\* Model.AddLogBatch, the append of VirtualModel's LogBatchMsg case).
U_Read ==
    /\ impl # "UnifiedModel"
    /\ ui.pc = "reading" /\ ui.i < ui.n
    /\ ui' = [ui EXCEPT !.got = Append(ui.got, ing.arr[ui.i + 1]), !.i = ui.i + 1]
    /\ UNCHANGED <<impl, lastOp, m, added, vm, um, fi, ix, ing, ps, rc, hd, rn, fa, clk>>

\* The handler stores what it read and returns to the event loop;
\* ui.handled counts the records of the messages Update has been given.
U_Handle ==
    /\ impl # "UnifiedModel"
    /\ ui.pc = "reading" /\ ui.i = ui.n
    /\ m' = IF impl = "Model" THEN Model_AddLogBatch(m, ui.got) ELSE m
    /\ vm' = IF impl = "VirtualModel" THEN Virtual_LogBatch(vm, ui.got) ELSE vm
    /\ added' = added \o ui.got
    /\ ui' = [pc |-> "idle", n |-> 0, i |-> 0, got |-> <<>>, handled |-> ui.handled + ui.n]
    /\ lastOp' = "batch"
    /\ UNCHANGED <<impl, um, fi, ix, ing, ps, rc, hd, rn, fa, clk>>

\* UnifiedModel.Update (unified_model.go 156-255) has no case for LogBatchMsg:
\* the message falls through the type switch, the model is returned as it
\* was and the slice is never read.  added records what the message held.
UU_Handle ==
    /\ impl = "UnifiedModel"
    /\ ui.pc = "reading"
    /\ added' = added \o SubSeq(ing.arr, 1, ui.n)
    /\ ui' = [pc |-> "idle", n |-> 0, i |-> 0, got |-> <<>>, handled |-> ui.handled + ui.n]
    /\ lastOp' = "batch"
    /\ UNCHANGED <<impl, m, vm, um, fi, ix, ing, ps, rc, hd, rn, fa, clk>>

NextIngest ==
    \/ P_Write
    \/ I_Tick
    \/ I_Scan
    \/ I_Eof
    \/ I_Error
    \/ I_Send
    \/ U_Read
    \/ U_Handle
    \/ UU_Handle

SpecIngest == InitIngest /\ [][NextIngest]_vars

IsPrefix(s, t) == Len(s) <= Len(t) /\ s = SubSeq(t, 1, Len(s))

\* C5: the concatenation of the batches as the UI processes them is the sequence
\* of parsed input lines: at every moment a prefix of it, and all of it once the
\* ingester has finished (no read of the pipe having failed) and the UI has
\* handled the last batch.
C5_DeliveredExactlyOnceInOrder ==
    /\ IsPrefix(added, ing.input)
    /\ (ing.pc = "done" /\ ui.pc = "idle" /\ ~ing.failed) => added = ing.input

(***************************************************************************)
(* Index specification: one indexing pass over a file, as done by          *)
(* FastIndexer.IndexFileUltraFast (chunked reads) and by                   *)
(* FileIndexer.IndexFile (bufio ReadBytes).  A file is a sequence of       *)
(* bytes; offsets are Go's, 0-based.                                       *)
(***************************************************************************)
MaxFile == 4       \* longest file, in bytes
ChunkSize == 2     \* size of the read buffer (256 KB in the source)

Bytes == {"a", "\n"}

Files == UNION {[1..k -> Bytes] : k \in 0..MaxFile}

NewIndexing(file) ==
    [pc |-> "reading", file |-> file, offset |-> 0, lineStart |-> 0,
     indices |-> <<>>, lineCount |-> 0, totalLines |-> 0, indexed |-> FALSE,
     reads |-> 0]

\* A variant that leaves the newline out of the line's length.
Fast_lineLen_NoNewline(offset, i, lineStart) == offset + i - lineStart

Fast_lineLen(offset, i, lineStart) == offset + i - lineStart + 1

\* for i := 0; i < n; i++ over the n bytes read at x.offset.
RECURSIVE Fast_scanBytes(_, _, _)
Fast_scanBytes(x, i, n) ==
    IF i >= n THEN x
    ELSE IF At(x.file, x.offset + i) = "\n"
         THEN Fast_scanBytes(
                  [x EXCEPT !.indices = Append(@, [Offset |-> x.lineStart,
                                                   Length |-> Fast_lineLen(x.offset, i,
                                                                           x.lineStart)]),
                            !.lineStart = x.offset + i + 1,
                            !.lineCount = @ + 1],
                  i + 1, n)
         ELSE Fast_scanBytes(x, i + 1, n)

Fast_readChunk(x, n) ==
    [Fast_scanBytes(x, 0, n) EXCEPT !.offset = x.offset + n, !.reads = @ + 1]

\* err == io.EOF: the last line if it has no trailing newline, then the totals.
Fast_eof(x) ==
    LET x1 == IF x.lineStart < x.offset
              THEN [x EXCEPT !.indices = Append(@, [Offset |-> x.lineStart,
                                                    Length |-> x.offset - x.lineStart]),
                             !.lineCount = @ + 1]
              ELSE x
    IN [x1 EXCEPT !.totalLines = x1.lineCount, !.indexed = TRUE, !.pc = "done"]

\* The whole pass when every Read fills the buffer as far as the file allows.
RECURSIVE Fast_IndexFileUltraFast(_)
Fast_IndexFileUltraFast(x) ==
    IF x.offset = Len(x.file) THEN Fast_eof(x)
    ELSE Fast_IndexFileUltraFast(
             Fast_readChunk(x, min(ChunkSize, Len(x.file) - x.offset)))

\* Offsets (0-based) of the newlines at or after offset.
NewlinesFrom(file, offset) == {i \in offset..(Len(file) - 1) : At(file, i) = "\n"}

Minimum(S) == CHOOSE i \in S : \A j \in S : i <= j

\* One turn of IndexFile's loop: reader.ReadBytes('\n'), then the append.
File_readBytes(x) ==
    LET nls == NewlinesFrom(x.file, x.offset)
        eof == nls = {}
        len == IF eof THEN Len(x.file) - x.offset ELSE Minimum(nls) - x.offset + 1
        x1 == IF len > 0
              THEN [x EXCEPT !.indices = Append(@, [Offset |-> x.offset, Length |-> len]),
                             !.offset = x.offset + len,
                             !.lineStart = x.offset + len,
                             !.lineCount = @ + 1]
              ELSE x
        x2 == [x1 EXCEPT !.reads = @ + 1]
    IN IF eof
       THEN [x2 EXCEPT !.totalLines = x2.lineCount, !.indexed = TRUE, !.pc = "done"]
       ELSE x2

InitIndex ==
    /\ impl \in {"FastIndexer", "FileIndexer"}
    /\ lastOp = "init"
    /\ ps = Unused /\ rc = Unused /\ hd = Unused /\ rn = Unused
    /\ fa = Unused /\ clk = Unused
    /\ added = <<>>
    /\ m = ModelUnused /\ vm = NewVirtualModelFields(1) /\ um = UnifiedUnused
    /\ \E file \in Files : ix = NewIndexing(file)
    /\ fi = Unused /\ ing = Unused /\ ui = Unused

\* file.Read returns between 1 and len(buffer) bytes while bytes remain.
FI_Read(n) ==
    /\ impl = "FastIndexer" /\ ix.pc = "reading"
    /\ n <= Len(ix.file) - ix.offset
    /\ ix' = Fast_readChunk(ix, n)
    /\ lastOp' = "read"
    /\ UNCHANGED <<impl, m, added, vm, um, fi, ing, ui, ps, rc, hd, rn, fa, clk>>

\* file.Read returns 0, io.EOF.
FI_Eof ==
    /\ impl = "FastIndexer" /\ ix.pc = "reading"
    /\ ix.offset = Len(ix.file)
    /\ ix' = Fast_eof(ix)
    /\ lastOp' = "eof"
    /\ UNCHANGED <<impl, m, added, vm, um, fi, ing, ui, ps, rc, hd, rn, fa, clk>>

IX_ReadBytes ==
    /\ impl = "FileIndexer" /\ ix.pc = "reading"
    /\ ix' = File_readBytes(ix)
    /\ lastOp' = "read"
    /\ UNCHANGED <<impl, m, added, vm, um, fi, ing, ui, ps, rc, hd, rn, fa, clk>>

NextIndex ==
    \/ \E n \in 1..ChunkSize : FI_Read(n)
    \/ FI_Eof
    \/ IX_ReadBytes

SpecIndex == InitIndex /\ [][NextIndex]_vars

RECURSIVE SumLengths(_)
SumLengths(indices) ==
    IF indices = <<>> THEN 0
    ELSE indices[1].Length + SumLengths(Tail(indices))

\* C6: index tiling.  After a finished pass over file F the first entry starts
\* at offset 0, each entry starts where the previous one ends, the lengths sum
\* to len(F), every entry but possibly the last ends with the newline, and an
\* empty file gives an empty table.
C6_IndexTiles ==
    ix.pc = "done" =>
        LET t == ix.indices IN
        /\ ix.file = <<>> => t = <<>>
        /\ t # <<>> => t[1].Offset = 0
        /\ \A k \in 1..(Len(t) - 1) : t[k + 1].Offset = t[k].Offset + t[k].Length
        /\ SumLengths(t) = Len(ix.file)
        /\ \A k \in 1..Len(t) : t[k].Length >= 1
        /\ \A k \in 1..(Len(t) - 1) : At(ix.file, t[k].Offset + t[k].Length - 1) = "\n"
        /\ ix.totalLines = Len(t)

\* A file of several lines, the last without newline, indexed by
\* IndexFileUltraFast in more than one read.
C6_Witness ==
    /\ impl = "FastIndexer" /\ ix.pc = "done"
    /\ ix.reads >= 2
    /\ Len(ix.indices) >= 2
    /\ Last(ix.file) # "\n"
    /\ Last(ix.indices).Offset + Last(ix.indices).Length = Len(ix.file)

(***************************************************************************)
(* Cache specification: line fetches through the parse cache,              *)
(* FastIndexer.GetLineRange (fast_indexer.go) and FileIndexer.GetLine      *)
(* (indexer.go), on an indexed file.                                       *)
(***************************************************************************)
CacheSize == 2     \* cacheSize (5000 in NewFastIndexer, 1000 in NewFileIndexer)

\* ParseLogLine on the lines used here: they are no JSON, match neither the
\* Rails nor the common-log pattern, and hold no level keyword, timestamp or
\* escape sequence, so parsePlainText returns the line as Message and Raw with
\* level INFO.  The Timestamp (the time of parsing) is left out of the record.
ParseLogLine(line) == [Level |-> "INFO", Message |-> line, Raw |-> line]

StripNewline(line) ==
    IF line # <<>> /\ Last(line) = "\n" THEN SubSeq(line, 1, Len(line) - 1) ELSE line

\* bufio's dropCR.
DropCR(data) ==
    IF data # <<>> /\ Last(data) = "\r" THEN SubSeq(data, 1, Len(data) - 1) ELSE data

\* The tokens bufio.Scanner yields with ScanLines over a buffer.
RECURSIVE ScanLines(_)
ScanLines(buf) ==
    IF buf = <<>> THEN <<>>
    ELSE LET nls == {i \in 1..Len(buf) : buf[i] = "\n"}
         IN IF nls = {}
            THEN <<DropCR(buf)>>
            ELSE <<DropCR(SubSeq(buf, 1, Minimum(nls) - 1))>>
                     \o ScanLines(SubSeq(buf, Minimum(nls) + 1, Len(buf)))

\* file.ReadAt(buffer, Offset) with len(buffer) = Length: the bytes of line i.
LineBytes(f, i) ==
    Slice(f.file, At(f.indices, i).Offset, At(f.indices, i).Offset + At(f.indices, i).Length)

\* The whole of IndexFile.
RECURSIVE File_IndexFile(_)
File_IndexFile(x) == IF x.pc = "done" THEN x ELSE File_IndexFile(File_readBytes(x))

NewIndexer(x) ==
    [file |-> x.file, indices |-> x.indices, totalLines |-> x.totalLines,
     cache |-> <<>>, result |-> <<>>, start |-> 0, end |-> 0]

Put(cache, k, entry) == [i \in DOMAIN cache \cup {k} |-> IF i = k THEN entry ELSE cache[i]]

Restrict(cache, keys) == [i \in keys |-> cache[i]]

\* The line numbers start..end-1 as a sequence.
Range(start, end) == [k \in 1..(end - start) |-> start + k - 1]

\* fast_indexer.go 222-235: keys outside [idx - C/2, idx + C/2] are deleted in
\* map order until more than C/4 have gone; map order is unspecified, so every
\* choice of the deleted keys is an outcome.
Fast_evict(cache, idx) ==
    IF Cardinality(DOMAIN cache) > CacheSize
    THEN LET out == {k \in DOMAIN cache : k < idx - GoDiv(CacheSize, 2)
                                          \/ k > idx + GoDiv(CacheSize, 2)}
             n == min(Cardinality(out), GoDiv(CacheSize, 4) + 1)
         IN {Restrict(cache, DOMAIN cache \ R) : R \in {S \in SUBSET out : Cardinality(S) = n}}
    ELSE {cache}

\* fast_indexer.go 200-238: one ReadAt per uncached index.
RECURSIVE Fast_readEach(_, _, _, _)
Fast_readEach(f, cache, entries, rest) ==
    IF rest = <<>> THEN {[cache |-> cache, entries |-> entries]}
    ELSE LET idx == Head(rest)
             entry == ParseLogLine(StripNewline(LineBytes(f, idx)))
         IN UNION {Fast_readEach(f, c, Append(entries, entry), Tail(rest)) :
                       c \in Fast_evict(Put(cache, idx, entry), idx)}

\* fast_indexer.go 162-198: one ReadAt for the run of lines, split by a Scanner.
RECURSIVE Fast_scanInto(_, _, _, _)
Fast_scanInto(cache, entries, tokens, rest) ==
    IF rest = <<>> \/ tokens = <<>> THEN [cache |-> cache, entries |-> entries]
    ELSE LET entry == ParseLogLine(Head(tokens))
         IN Fast_scanInto(Put(cache, Head(rest), entry), Append(entries, entry),
                          Tail(tokens), Tail(rest))

Fast_readRun(f, cache, entries, uncached) ==
    LET first == At(f.indices, uncached[1])
        last == At(f.indices, Last(uncached))
        buffer == Slice(f.file, first.Offset, last.Offset + last.Length)
        r == Fast_scanInto(cache, <<>>, ScanLines(buffer), uncached)
    IN [cache |-> r.cache, entries |-> entries \o r.entries]

\* The outcomes of GetLineRange(start, end): the entries returned and the cache.
Fast_GetLineRange(f, start, end) ==
    LET s == max(0, start)
        e == min(end, f.totalLines)
    IN IF s >= e THEN {[cache |-> f.cache, entries |-> <<>>]}
       ELSE LET lines == Range(s, e)
                hits == SelectSeq(lines, LAMBDA i : i \in DOMAIN f.cache)
                entries == [k \in 1..Len(hits) |-> f.cache[hits[k]]]
                uncached == SelectSeq(lines, LAMBDA i : i \notin DOMAIN f.cache)
            IN IF uncached = <<>> THEN {[cache |-> f.cache, entries |-> entries]}
               ELSE IF Len(uncached) > 1
                        /\ Last(uncached) - uncached[1] = Len(uncached) - 1
                    THEN {Fast_readRun(f, f.cache, entries, uncached)}
                    ELSE Fast_readEach(f, f.cache, entries, uncached)

\* indexer.go 149-157: arbitrary keys are deleted until len(cache) <= C/2.
File_evict(cache) ==
    IF Cardinality(DOMAIN cache) > CacheSize
    THEN {Restrict(cache, K) : K \in {S \in SUBSET DOMAIN cache :
                                           Cardinality(S) = GoDiv(CacheSize, 2)}}
    ELSE {cache}

\* The outcomes of FileIndexer.GetLine(lineNum).
File_GetLine(f, lineNum) ==
    IF lineNum < 0 \/ lineNum >= Len(f.indices)
    THEN {[cache |-> f.cache, entries |-> <<>>]}
    ELSE IF lineNum \in DOMAIN f.cache
         THEN {[cache |-> f.cache, entries |-> <<f.cache[lineNum]>>]}
         ELSE LET entry == ParseLogLine(LineBytes(f, lineNum))
              IN {[cache |-> c, entries |-> <<entry>>] :
                      c \in File_evict(Put(f.cache, lineNum, entry))}

\* Files: three lines; two lines ending in CR LF; an empty line and a last line
\* without newline.
CacheFiles ==
    {<<"a", "\n", "b", "\n", "c", "\n">>,
     <<"a", "\r", "\n", "b", "\r", "\n">>,
     <<"a", "\n", "\n", "b", "\n", "c">>}

MaxLine == 4

InitCache ==
    /\ impl \in {"FastIndexer", "FileIndexer"}
    /\ lastOp = "init"
    /\ ps = Unused /\ rc = Unused /\ hd = Unused /\ rn = Unused
    /\ fa = Unused /\ clk = Unused
    /\ added = <<>>
    /\ m = ModelUnused /\ vm = NewVirtualModelFields(1) /\ um = UnifiedUnused
    /\ \E file \in CacheFiles :
          /\ ix = IF impl = "FastIndexer"
                  THEN Fast_IndexFileUltraFast(NewIndexing(file))
                  ELSE File_IndexFile(NewIndexing(file))
          /\ fi = NewIndexer(ix)
    /\ ing = Unused /\ ui = Unused

FC_GetLineRange(start, end) ==
    /\ impl = "FastIndexer"
    /\ \E r \in Fast_GetLineRange(fi, start, end) :
          fi' = [fi EXCEPT !.cache = r.cache, !.result = r.entries,
                           !.start = start, !.end = end]
    /\ lastOp' = "GetLineRange"
    /\ UNCHANGED <<impl, m, added, vm, um, ix, ing, ui, ps, rc, hd, rn, fa, clk>>

IC_GetLine(lineNum) ==
    /\ impl = "FileIndexer"
    /\ \E r \in File_GetLine(fi, lineNum) :
          fi' = [fi EXCEPT !.cache = r.cache, !.result = r.entries,
                           !.start = lineNum, !.end = lineNum + 1]
    /\ lastOp' = "GetLine"
    /\ UNCHANGED <<impl, m, added, vm, um, ix, ing, ui, ps, rc, hd, rn, fa, clk>>

NextCache ==
    \/ \E start \in 0..MaxLine, end \in 0..MaxLine : FC_GetLineRange(start, end)
    \/ \E lineNum \in 0..MaxLine : IC_GetLine(lineNum)

SpecCache == InitCache /\ [][NextCache]_vars

\* r is a record of line i, whatever was done with the line's terminator.
RecordOfLine(r, i) ==
    r \in {ParseLogLine(LineBytes(fi, i)),
           ParseLogLine(StripNewline(LineBytes(fi, i))),
           ParseLogLine(DropCR(StripNewline(LineBytes(fi, i))))}

\* C7: for 0 <= start < end <= lineCount, GetLineRange(start, end) returns
\* end-start records, the k-th being the record of line start+k, in file order,
\* whatever the cache held.
C7_RangeInFileOrder ==
    (/\ impl = "FastIndexer" /\ lastOp = "GetLineRange"
     /\ 0 <= fi.start /\ fi.start < fi.end /\ fi.end <= fi.totalLines)
    => /\ Len(fi.result) = fi.end - fi.start
       /\ \A k \in 1..Len(fi.result) : RecordOfLine(fi.result[k], fi.start + k - 1)

\* C8: every cached pair (i, r) has r = parse(bytes of line i), the bytes being
\* the line as indexed or the line without its newline.
C8_CacheSound ==
    \A i \in DOMAIN fi.cache :
        fi.cache[i] \in {ParseLogLine(LineBytes(fi, i)),
                         ParseLogLine(StripNewline(LineBytes(fi, i)))}

\* C9: after every GetLineRange the cache holds at most CacheSize records.
C9_CacheBounded ==
    (impl = "FastIndexer" /\ lastOp = "GetLineRange") =>
        Cardinality(DOMAIN fi.cache) <= CacheSize


(***************************************************************************)
(* LogParser (parser.go).  A line is a sequence of symbols: characters,    *)
(* and one symbol per JSON object key.  ESC stands for the byte 0x1b.      *)
(***************************************************************************)
ESC == "^"

LowerLetters ==
    <<"a", "b", "c", "d", "e", "f", "g", "h", "i", "j", "k", "l", "m",
      "n", "o", "p", "q", "r", "s", "t", "u", "v", "w", "x", "y", "z">>

UpperLetters ==
    <<"A", "B", "C", "D", "E", "F", "G", "H", "I", "J", "K", "L", "M",
      "N", "O", "P", "Q", "R", "S", "T", "U", "V", "W", "X", "Y", "Z">>

UpperChar(c) ==
    IF \E i \in 1..26 : LowerLetters[i] = c
    THEN UpperLetters[CHOOSE i \in 1..26 : LowerLetters[i] = c]
    ELSE c

\* strings.ToUpper.
ToUpper(s) == [i \in 1..Len(s) |-> UpperChar(s[i])]

DigitChars == <<"0", "1", "2", "3", "4", "5", "6", "7", "8", "9">>

IsDigit(c) == \E i \in 1..10 : DigitChars[i] = c

IsLetter(c) == \E i \in 1..26 : LowerLetters[i] = c \/ UpperLetters[i] = c

\* Decimal text of a non-negative integer.
RECURSIVE Digits(_)
Digits(n) ==
    IF n < 10 THEN <<DigitChars[n + 1]>>
    ELSE Digits(n \div 10) \o <<DigitChars[(n % 10) + 1]>>

(***************************************************************************)
(* encoding/json: the values a line can hold, their text, and what         *)
(* json.Unmarshal into an OTLPLog makes of them.                           *)
(***************************************************************************)
JNull == [t |-> "null", n |-> 0, s |-> <<>>, members |-> <<>>]

JNum(n) == [t |-> "number", n |-> n, s |-> <<>>, members |-> <<>>]

JStr(s) == [t |-> "string", n |-> 0, s |-> s, members |-> <<>>]

JArr == [t |-> "array", n |-> 0, s |-> <<>>, members |-> <<>>]

\* members: a sequence of <<key, value>> pairs in the order of the text.
JObj(members) == [t |-> "object", n |-> 0, s |-> <<>>, members |-> members]

\* The text of a string: a control character such as ESC has no raw form in
\* JSON (json.Unmarshal rejects it), it is written \u001b.
RECURSIVE Escaped(_)
Escaped(s) ==
    IF s = <<>> THEN <<>>
    ELSE (IF Head(s) = ESC THEN <<"\\", "u", "0", "0", "1", "b">> ELSE <<Head(s)>>)
         \o Escaped(Tail(s))

Quote(s) == <<"\"">> \o Escaped(s) \o <<"\"">>

RECURSIVE Render(_)
RECURSIVE RenderMembers(_)
Render(v) ==
    CASE v.t = "null" -> <<"n", "u", "l", "l">>
      [] v.t = "number" -> Digits(v.n)
      [] v.t = "string" -> Quote(v.s)
      [] v.t = "array" -> <<"[", "]">>
      [] v.t = "object" -> <<"{">> \o RenderMembers(v.members) \o <<"}">>

RenderMembers(ms) ==
    IF ms = <<>> THEN <<>>
    ELSE Quote(<<Head(ms)[1]>>) \o <<":">> \o Render(Head(ms)[2])
         \o (IF Len(ms) > 1 THEN <<",">> ELSE <<>>) \o RenderMembers(Tail(ms))

HasKey(ms, key) == \E i \in 1..Len(ms) : ms[i][1] = key

\* The value json.Unmarshal sees for a key; a missing key and null both
\* leave the struct field at its zero value.
Lookup(ms, key) ==
    IF HasKey(ms, key) THEN ms[CHOOSE i \in 1..Len(ms) : ms[i][1] = key][2] ELSE JNull


\* The OTLPLog json.Unmarshal fills from a decoded value; err is the error
\* it returns.  Only null and objects fit the struct; a number field takes a
\* number, a string field a string, body anything; null is a no-op.
Unmarshal(doc) ==
    LET ts == Lookup(doc.members, "timeUnixNano")
        sn == Lookup(doc.members, "severityNumber")
        st == Lookup(doc.members, "severityText")
    IN [err |-> \/ doc.t \notin {"null", "object"}
                \/ ts.t \notin {"number", "null"}
                \/ sn.t \notin {"number", "null"}
                \/ st.t \notin {"string", "null"},
        Timestamp |-> ts.n,
        SeverityNumber |-> sn.n,
        SeverityText |-> st.s,
        Body |-> Lookup(doc.members, "body")]

WordERROR == <<"E", "R", "R", "O", "R">>

WordFATAL == <<"F", "A", "T", "A", "L">>

WordWARN == <<"W", "A", "R", "N">>

WordWARNING == <<"W", "A", "R", "N", "I", "N", "G">>

WordINFO == <<"I", "N", "F", "O">>

WordDEBUG == <<"D", "E", "B", "U", "G">>

WordTRACE == <<"T", "R", "A", "C", "E">>

WordSQL == <<"S", "Q", "L">>

WordSELECT == <<"S", "E", "L", "E", "C", "T">>

WordINSERT == <<"I", "N", "S", "E", "R", "T">>

WordUPDATE == <<"U", "P", "D", "A", "T", "E">>

WordDELETE == <<"D", "E", "L", "E", "T", "E">>

otlpSeverityToLevel(severityNumber, severityText) ==
    CASE severityNumber >= 17 -> "ERROR"
      [] severityNumber < 17 /\ severityNumber >= 13 -> "WARN"
      [] severityNumber < 13 /\ severityNumber >= 9 -> "INFO"
      [] severityNumber < 9 /\ severityNumber >= 5 -> "DEBUG"
      [] OTHER ->
           LET u == ToUpper(severityText)
           IN CASE u \in {WordERROR, WordFATAL} -> "ERROR"
                [] u \in {WordWARN, WordWARNING} -> "WARN"
                [] u = WordINFO -> "INFO"
                [] u \in {WordDEBUG, WordTRACE} -> "DEBUG"
                [] OTHER -> "INFO"

\* time.Now() and time.Unix(0, ns), both formatted "2006-01-02 15:04:05":
\* the text of an instant, never empty.
Now == <<"n", "o", "w">>

FormatTime(ns) == <<"t">> \o Digits(ns)

LogEntry(timestamp, level, message, raw) ==
    [Timestamp |-> timestamp, Level |-> level, Message |-> message, Raw |-> raw]

\* The zero LogEntry: LogLevel 0 is DEBUG.
ZeroLogEntry == LogEntry(<<>>, "DEBUG", <<>>, <<>>)

\* regexp.ReplaceAllString(ansiRegex, ""): one pass from the left, every
\* ESC [ params letter removed, the search resuming after the match.
RECURSIVE ParamsEnd(_, _)
ParamsEnd(s, j) ==
    IF j <= Len(s) /\ (IsDigit(s[j]) \/ s[j] = ";") THEN ParamsEnd(s, j + 1) ELSE j

RECURSIVE StripANSI(_)
StripANSI(s) ==
    IF s = <<>> THEN <<>>
    ELSE IF Len(s) >= 3 /\ s[1] = ESC /\ s[2] = "["
         THEN LET j == ParamsEnd(s, 3)
              IN IF j <= Len(s) /\ IsLetter(s[j])
                 THEN StripANSI(SubSeq(s, j + 1, Len(s)))
                 ELSE <<s[1]>> \o StripANSI(Tail(s))
         ELSE <<Head(s)>> \o StripANSI(Tail(s))

\* Positions in a line, 1-based; Len(s) + 1 when there is none.
FirstIn(s, from, C) ==
    IF \E j \in from..Len(s) : s[j] \in C
    THEN CHOOSE j \in from..Len(s) : s[j] \in C /\ \A k \in from..(j - 1) : s[k] \notin C
    ELSE Len(s) + 1

FirstNotIn(s, from, C) ==
    IF \E j \in from..Len(s) : s[j] \notin C
    THEN CHOOSE j \in from..Len(s) : s[j] \notin C /\ \A k \in from..(j - 1) : s[k] \in C
    ELSE Len(s) + 1

\* \s, \d and [0-9.] of the regular expressions.
SpaceChars == {" ", "\t", "\n", "\f", "\r"}

DigitSet == {DigitChars[i] : i \in 1..10}

HasAt(s, from, lit) ==
    from + Len(lit) - 1 <= Len(s) /\ SubSeq(s, from, from + Len(lit) - 1) = lit

\* strconv.Atoi of a run of digits.
RECURSIVE Atoi(_)
Atoi(d) ==
    IF d = <<>> THEN 0
    ELSE 10 * Atoi(SubSeq(d, 1, Len(d) - 1))
         + (CHOOSE i \in 0..9 : DigitChars[i + 1] = Last(d))


\* railsRegex ^\s*\(([0-9.]+)ms\)\s+(.+)$ on a line: whether it matches and
\* its second group.  "." takes no newline and "$" is the end of the text,
\* so the remainder after the blanks must be free of "\n"; when nothing
\* follows the blanks the last blank is the remainder.
RailsMatch(c) ==
    LET open == FirstNotIn(c, 1, SpaceChars)
        num == open + 1
        unit == FirstNotIn(c, num, DigitSet \cup {"."})
        blank == unit + 3
        rest == FirstNotIn(c, blank, SpaceChars)
        head == /\ HasAt(c, open, <<"(">>)
                /\ unit > num
                /\ HasAt(c, unit, <<"m", "s", ")">>)
                /\ rest > blank
    IN IF ~head THEN [ok |-> FALSE, msg |-> <<>>]
       ELSE IF rest <= Len(c)
            THEN [ok |-> \A k \in rest..Len(c) : c[k] # "\n",
                  msg |-> SubSeq(c, rest, Len(c))]
            ELSE [ok |-> rest - blank >= 2 /\ Last(c) # "\n", msg |-> <<Last(c)>>]

\* commonLogRegex ^(\S+) - - \[([^\]]+)\] "([^"]*)" (\d+) (\d+).
CommonLogMatch(c) ==
    LET sp == FirstIn(c, 1, SpaceChars)
        tsFrom == sp + 6
        tsEnd == FirstIn(c, tsFrom, {"]"})
        reqFrom == tsEnd + 3
        reqEnd == FirstIn(c, reqFrom, {"\""})
        stFrom == reqEnd + 2
        stEnd == FirstNotIn(c, stFrom, DigitSet)
        szFrom == stEnd + 1
        szEnd == FirstNotIn(c, szFrom, DigitSet)
    IN [ok |-> /\ sp > 1
               /\ HasAt(c, sp, <<" ", "-", " ", "-", " ", "[">>)
               /\ tsEnd > tsFrom
               /\ HasAt(c, tsEnd, <<"]", " ", "\"">>)
               /\ HasAt(c, reqEnd, <<"\"", " ">>)
               /\ stEnd > stFrom
               /\ HasAt(c, stEnd, <<" ">>)
               /\ szEnd > szFrom,
        ip |-> SubSeq(c, 1, sp - 1),
        ts |-> SubSeq(c, tsFrom, tsEnd - 1),
        request |-> SubSeq(c, reqFrom, reqEnd - 1),
        status |-> SubSeq(c, stFrom, stEnd - 1)]

tryParseStructured(line) ==
    LET cleanLine == StripANSI(line)
        rails == RailsMatch(cleanLine)
        common == CommonLogMatch(cleanLine)
        upperMsg == ToUpper(rails.msg)
        statusCode == Atoi(common.status)
    IN IF rails.ok
       THEN [ok |-> TRUE, tier |-> "timed",
             entry |-> LogEntry(Now,
                 IF Contains(upperMsg, WordERROR) THEN "ERROR"
                 ELSE IF Contains(upperMsg, WordWARN) THEN "WARN"
                 ELSE IF \E w \in {WordSQL, WordSELECT, WordINSERT, WordUPDATE, WordDELETE} :
                            Contains(upperMsg, w) THEN "DEBUG"
                 ELSE "INFO",
                 rails.msg, line)]
       ELSE IF common.ok
       THEN [ok |-> TRUE, tier |-> "common",
             entry |-> LogEntry(common.ts,
                 IF statusCode >= 500 THEN "ERROR"
                 ELSE IF statusCode >= 400 THEN "WARN" ELSE "INFO",
                 common.ip \o <<" ">> \o common.request
                     \o <<" ", "-", " ", "S", "t", "a", "t", "u", "s", ":", " ">>
                     \o common.status,
                 line)]
       ELSE [ok |-> FALSE, tier |-> "none", entry |-> ZeroLogEntry]

\* extractTimestamp: the first pattern, \d{4}-\d{2}-\d{2} \d{2}:\d{2}:\d{2},
\* parsed with the layout "2006-01-02 15:04:05" and formatted again in the
\* parser's zone (UTC), which gives the matched text back.  The lines of the
\* model hold no month name and no "T" between digits, so the three other
\* patterns find nothing.
IsStamp(w) ==
    /\ Len(w) = 19
    /\ \A i \in 1..19 :
          CASE i \in {5, 8} -> w[i] = "-"
            [] i = 11 -> w[i] = " "
            [] i \in {14, 17} -> w[i] = ":"
            [] OTHER -> IsDigit(w[i])

DaysIn(year, month) ==
    CASE month \in {4, 6, 9, 11} -> 30
      [] month = 2 ->
           IF year % 4 = 0 /\ (year % 100 # 0 \/ year % 400 = 0) THEN 29 ELSE 28
      [] OTHER -> 31

\* time.Parse accepts the text when every field is in range.
ParsesAsTime(w) ==
    LET year == Atoi(SubSeq(w, 1, 4))
        month == Atoi(SubSeq(w, 6, 7))
        day == Atoi(SubSeq(w, 9, 10))
    IN /\ month \in 1..12
       /\ day \in 1..DaysIn(year, month)
       /\ Atoi(SubSeq(w, 12, 13)) < 24
       /\ Atoi(SubSeq(w, 15, 16)) < 60
       /\ Atoi(SubSeq(w, 18, 19)) < 60

extractTimestamp(entry, line) ==
    LET starts == {k \in 1..(Len(line) - 18) : IsStamp(SubSeq(line, k, k + 18))}
        first == CHOOSE k \in starts : \A j \in starts : k <= j
    IN IF starts # {} /\ ParsesAsTime(SubSeq(line, first, first + 18))
       THEN [entry EXCEPT !.Timestamp = SubSeq(line, first, first + 18)]
       ELSE entry

parsePlainText(line) ==
    LET cleanLine == StripANSI(line)
        upperLine == ToUpper(cleanLine)
        level == IF Contains(upperLine, WordERROR) \/ Contains(upperLine, WordFATAL)
                 THEN "ERROR"
                 ELSE IF Contains(upperLine, WordWARN) \/ Contains(upperLine, WordWARNING)
                 THEN "WARN"
                 ELSE IF Contains(upperLine, WordDEBUG) \/ Contains(upperLine, WordTRACE)
                 THEN "DEBUG"
                 ELSE "INFO"
    IN extractTimestamp(LogEntry(Now, level, cleanLine, line), cleanLine)


(***************************************************************************)
(* The lines of the model: the text of every JSON value below, and a few   *)
(* lines that are not JSON.                                                *)
(***************************************************************************)
TextM == <<"m">>

BodyValues ==
    {JStr(TextM), JNum(5), JNull, JArr,
     JStr(<<ESC, "[", "3", "1", "m", "x">>),
     JObj(<<<<"stringValue", JStr(TextM)>>>>),
     JObj(<<<<"stringValue", JNum(5)>>>>),
     JObj(<<<<"stringValue", JNull>>>>),
     JObj(<<<<"kvlistValue", JStr(TextM)>>>>)}

TimeValues == {JNum(0), JNum(5), JStr(<<"5">>)}

SeverityNumbers == {JNum(4), JNum(9), JNum(17)}

SeverityTexts == {JStr(<<"w", "a", "r", "n">>)}

\* One member for the key, or none.
Members(key, values) == {<<>>} \cup {<<<<key, v>>>> : v \in values}

JsonDocs ==
    {JNull, JNum(5), JStr(TextM), JArr, JObj(<<<<"other", JNum(5)>>>>)}
    \cup {JObj(ts \o sn \o st \o body) :
            ts \in Members("timeUnixNano", TimeValues),
            sn \in Members("severityNumber", SeverityNumbers),
            st \in Members("severityText", SeverityTexts),
            body \in Members("body", BodyValues)}

PlainLines ==
    {<<>>,
     <<"h", "i">>,
     <<"e", "r", "r", "o", "r">>,
     <<ESC, "[", "3", "1", "m", "W", "A", "R", "N", ESC, "[", "0", "m">>,
     <<"(", "1", ".", "5", "m", "s", ")", " ", "S", "E", "L", "E", "C", "T">>,
     <<" ", "(", "2", "m", "s", ")", " ", " ">>,
     <<"(", "2", "m", "s", ")", " ", "x", "\n">>,
     <<"(", "2", "m", "s", ")", " ", "o", "k">>,
     <<"(", "2", "m", "s", ")", " ", "w", "a", "r", "n">>,
     <<"(", "2", "m", "s", ")", " ", "W", "A", "R", "N", " ", "e", "r", "r", "o", "r">>,
     <<"(", "2", "m", "s", ")", " ", "S", "Q", "L", " ", "E", "R", "R", "O", "R">>,
     <<"(", "2", "m", "s", ")", " ", "u", "p", "d", "a", "t", "e", " ", "w", "a", "r", "n">>,
     <<"(", "2", "m", "s", ")", " ", ESC, "[", ESC, "[", "0", "m", "m">>,
     <<ESC, "[", ESC, "[", "0", "m", "m", " ", "h", "i">>,
     <<"h", " ", "-", " ", "-", " ", "[", "d", "]", " ", "\"", "G", "\"", " ",
       "5", "0", "0", " ", "1">>,
     <<"2", "0", "2", "3", "-", "0", "1", "-", "0", "1", " ",
       "1", "2", ":", "0", "0", ":", "0", "0", " ", "u", "p">>,
     <<"2", "0", "2", "3", "-", "1", "3", "-", "0", "1", " ",
       "1", "2", ":", "0", "0", ":", "0", "0">>}

ParseLines == PlainLines \cup {Render(d) : d \in JsonDocs}

\* json.Unmarshal reads the text back: the value whose text the line is.
Decode(line) ==
    IF \E d \in JsonDocs : Render(d) = line
    THEN [valid |-> TRUE, doc |-> CHOOSE d \in JsonDocs : Render(d) = line]
    ELSE [valid |-> FALSE, doc |-> JNull]

\* tryParseOTLP.  panic: the unchecked assertion msg.(string) on a
\* stringValue that is not a string.
tryParseOTLP(line) ==
    LET d == Decode(line)
        o == Unmarshal(d.doc)
        body == o.Body
        sv == Lookup(body.members, "stringValue")
        timestamp == IF o.Timestamp > 0 THEN FormatTime(o.Timestamp) ELSE Now
        level == otlpSeverityToLevel(o.SeverityNumber, o.SeverityText)
    IN IF ~d.valid \/ o.err
       THEN [ok |-> FALSE, panic |-> FALSE, entry |-> ZeroLogEntry]
       ELSE IF body.t = "string"
       THEN [ok |-> TRUE, panic |-> FALSE,
             entry |-> LogEntry(timestamp, level, body.s, line)]
       ELSE IF body.t = "object" /\ HasKey(body.members, "stringValue")
       THEN IF sv.t = "string"
            THEN [ok |-> TRUE, panic |-> FALSE,
                  entry |-> LogEntry(timestamp, level, sv.s, line)]
            ELSE [ok |-> FALSE, panic |-> TRUE, entry |-> ZeroLogEntry]
       ELSE IF body.t = "object"
       THEN [ok |-> TRUE, panic |-> FALSE,
             entry |-> LogEntry(timestamp, level, Render(body), line)]
       ELSE [ok |-> TRUE, panic |-> FALSE,
             entry |-> LogEntry(timestamp, level, <<>>, line)]

\* LogParser.ParseLogLine: the three tiers in order; tier names the format
\* that produced the record ("timed" and "common" are the two formats of
\* tryParseStructured).
LogParser_ParseLogLine(line) ==
    LET otlp == tryParseOTLP(line)
        structured == tryParseStructured(line)
    IN IF otlp.panic THEN [panic |-> TRUE, tier |-> "otlp", entry |-> ZeroLogEntry]
       ELSE IF otlp.ok THEN [panic |-> FALSE, tier |-> "otlp", entry |-> otlp.entry]
       ELSE IF structured.ok
       THEN [panic |-> FALSE, tier |-> structured.tier, entry |-> structured.entry]
       ELSE [panic |-> FALSE, tier |-> "plain", entry |-> parsePlainText(line)]

(***************************************************************************)
(* Parser specification: a line arrives and ParseLogLine is applied.       *)
(***************************************************************************)
InitParse ==
    /\ impl = "LogParser"
    /\ lastOp = "init"
    /\ rc = Unused /\ hd = Unused /\ rn = Unused
    /\ fa = Unused /\ clk = Unused
    /\ added = <<>>
    /\ m = ModelUnused /\ vm = NewVirtualModelFields(1) /\ um = UnifiedUnused
    /\ fi = Unused /\ ix = Unused /\ ing = Unused /\ ui = Unused
    /\ \E line \in ParseLines :
          ps = [pc |-> "line", line |-> line, panicked |-> FALSE, tier |-> "none",
                entry |-> ZeroLogEntry]

P_ParseLogLine ==
    /\ impl = "LogParser" /\ ps.pc = "line"
    /\ LET r == LogParser_ParseLogLine(ps.line)
       IN ps' = [ps EXCEPT !.pc = IF r.panic THEN "panic" ELSE "parsed",
                           !.panicked = r.panic,
                           !.tier = r.tier,
                           !.entry = r.entry]
    /\ lastOp' = "parse"
    /\ UNCHANGED <<impl, m, added, vm, um, fi, ix, ing, ui, rc, hd, rn, fa, clk>>

NextParse == P_ParseLogLine

SpecParse == InitParse /\ [][NextParse]_vars

\* C11: ParseLogLine is total: for any line it returns, without panicking,
\* a record with a non-empty timestamp and a level among Debug, Info, Warn
\* and Error.
C11_ParseTotal ==
    ps.pc \in {"parsed", "panic"} =>
        /\ ~ps.panicked
        /\ ps.entry.Timestamp # <<>>
        /\ ps.entry.Level \in Levels


(***************************************************************************)
(* Match index, selection and tailing after rebuilds and keys.             *)
(***************************************************************************)
\* The positions (from 0) of the records whose message matches an item of the
\* include list, in increasing order.
MatchPositions(records, value, useRegex, caseSensitive) ==
    LET Matches(j) == ListMatches(value, records[j + 1].Message, useRegex, caseSensitive)
    IN SelectSeq([j \in 1..Len(records) |-> j - 1], Matches)

\* C12: after any filter rebuild the match index is exactly the strictly
\* increasing list of the positions of the filtered view whose record message
\* matches at least one non-empty include pattern, every element being a valid
\* position of the filtered view; in Model and in UnifiedModel.
C12_MatchIndexExact ==
    /\ (impl = "Model" /\ lastOp = "rebuild") =>
          m.matchedIndices =
              MatchPositions(m.filteredEntries, m.includeInput, m.useRegex, m.caseSensitive)
    /\ (impl = "UnifiedModel" /\ lastOp = "rebuild" /\ ~um.overflow) =>
          um.matchedIndices =
              MatchPositions(UnifiedFiltered, um.includeInput, um.useRegex, um.caseSensitive)

\* C13: after a filter rebuild that finds at least one match the selection is
\* on the most recent match: the selected position of the filtered view is
\* the last element of the match index and currentMatchIdx designates it.
C13_SelectionOnLastMatch ==
    /\ (impl = "Model" /\ lastOp = "rebuild" /\ m.matchedIndices # <<>>) =>
          /\ m.selectedIdx = Last(m.matchedIndices)
          /\ m.currentMatchIdx = Len(m.matchedIndices) - 1
    /\ (impl = "UnifiedModel" /\ lastOp = "rebuild" /\ ~um.overflow
            /\ um.matchedIndices # <<>>) =>
          /\ um.viewportStart + um.selectedIdx = Last(um.matchedIndices)
          /\ um.currentMatchIdx = Len(um.matchedIndices) - 1

\* C14: every upward movement exits tailing: after up, half a page up, home
\* or gg, tailing is disabled, whatever the state before the key.
C14_UpwardExitsTailing ==
    [][/\ (\E key \in {"up", "ctrl+u", "home", "gg"} : M_Key(key)) => ~m'.tailing
       /\ (\E key \in {"up", "ctrl+u", "gg"} : U_Key(key)) => ~um'.tailing]_vars

\* C15: scroll_to_bottom enters tailing: after the G key tailing is enabled,
\* whatever the state before the key, an empty filtered view included.
C15_BottomEntersTailing ==
    [][/\ M_Key("G") => m'.tailing
       /\ U_Key("G") => um'.tailing]_vars


(***************************************************************************)
(* Race specification.  UnifiedApp.Run starts processInput as a goroutine  *)
(* (part_001 32); indexFile calls model.SetIndexer there, and SetIndexer   *)
(* runs applyFilters on the model the UI goroutine's Update and View work  *)
(* on.  No lock covers filteredIndices, so the two applyFilters interleave *)
(* statement by statement: rc holds where each goroutine stands (pc and    *)
(* the loop variable i) and what View saw last.                            *)
(***************************************************************************)
\* One pass of the loop of applyFilters (unified_model.go 744-783) on the
\* shared fields.
Unified_filterStep(u, i) ==
    LET entry == At(u.file, i) IN
    IF ~Unified_shouldShowLevel(u, entry.Level) \/ Unified_excluded(u, entry.Message)
    THEN u
    ELSE IF u.includeInput # <<>>
    THEN IF Unified_matched(u, entry.Message)
         THEN [u EXCEPT !.matchedIndices = Append(@, Len(u.filteredIndices)),
                        !.filteredIndices = Append(@, i)]
         ELSE u
    ELSE [u EXCEPT !.filteredIndices = Append(@, i)]

\* The end of applyFilters (unified_model.go 785-792).
Unified_filterEnd(u) ==
    Unified_loadVisibleLinesAt(
        IF u.viewportStart >= Len(u.filteredIndices)
        THEN [u EXCEPT !.viewportStart = 0, !.selectedIdx = 0]
        ELSE u, 1)

RaceFiles ==
    {<<Entry("INFO", <<"a">>), Entry("ERROR", <<"b">>), Entry("WARN", <<"c">>)>>,
     <<Entry("WARN", <<"a">>), Entry("INFO", <<"b">>)>>}

RaceToggleItems == {4, 6}

Goroutines == {"ingest", "ui"}

InitRace ==
    /\ impl = "UnifiedModel"
    /\ lastOp = "init"
    /\ ps = Unused /\ hd = Unused /\ rn = Unused
    /\ fa = Unused /\ clk = Unused
    /\ \E file \in RaceFiles : added = file
    /\ um = [NewUnifiedModelFields(<<>>, <<>>) EXCEPT !.indexing = TRUE]
    /\ rc = [pc |-> [ingest |-> "index", ui |-> "idle"],
             i |-> [ingest |-> 0, ui |-> 0],
             seen |-> <<>>]
    /\ m = ModelUnused /\ vm = NewVirtualModelFields(1)
    /\ fi = Unused /\ ix = Unused /\ ing = Unused /\ ui = Unused

\* SetIndexer up to its call of applyFilters (unified_model.go 1049-1053; the
\* call returns at once without an indexer, 725-727).
R_SetIndexer ==
    /\ rc.pc.ingest = "index" /\ ~um.overflow
    /\ um' = [um EXCEPT !.hasIndexer = TRUE, !.file = added,
                        !.totalLines = Len(added), !.indexing = FALSE]
    /\ rc' = [rc EXCEPT !.pc.ingest = "reset"]
    /\ lastOp' = "SetIndexer"
    /\ UNCHANGED <<impl, m, added, vm, fi, ix, ing, ui, ps, hd, rn, fa, clk>>

\* A key of the left panel on the UI goroutine: the checkbox flips and
\* applyFilters starts.
R_Toggle(item) ==
    /\ rc.pc.ui = "idle" /\ ~um.overflow
    /\ um' = IF item = 4 THEN [um EXCEPT !.showError = ~um.showError]
             ELSE [um EXCEPT !.showInfo = ~um.showInfo]
    /\ rc' = [rc EXCEPT !.pc.ui = IF um.hasIndexer THEN "reset" ELSE "idle"]
    /\ lastOp' = "toggle"
    /\ UNCHANGED <<impl, m, added, vm, fi, ix, ing, ui, ps, hd, rn, fa, clk>>

\* applyFilters, the two assignments before the loop (729-730).
R_Reset(g) ==
    /\ rc.pc[g] = "reset" /\ ~um.overflow
    /\ um' = [um EXCEPT !.filteredIndices = <<>>, !.matchedIndices = <<>>]
    /\ rc' = [rc EXCEPT !.pc[g] = "loop", !.i[g] = 0]
    /\ lastOp' = "reset"
    /\ UNCHANGED <<impl, m, added, vm, fi, ix, ing, ui, ps, hd, rn, fa, clk>>

R_Iterate(g) ==
    /\ rc.pc[g] = "loop" /\ rc.i[g] < um.totalLines /\ ~um.overflow
    /\ um' = Unified_filterStep(um, rc.i[g])
    /\ rc' = [rc EXCEPT !.i[g] = rc.i[g] + 1]
    /\ lastOp' = "iterate"
    /\ UNCHANGED <<impl, m, added, vm, fi, ix, ing, ui, ps, hd, rn, fa, clk>>

R_Finish(g) ==
    /\ rc.pc[g] = "loop" /\ rc.i[g] >= um.totalLines /\ ~um.overflow
    /\ um' = Unified_filterEnd([um EXCEPT !.passes = 0])
    /\ rc' = [rc EXCEPT !.pc[g] = IF g = "ui" THEN "idle" ELSE "done"]
    /\ lastOp' = "rebuilt"
    /\ UNCHANGED <<impl, m, added, vm, fi, ix, ing, ui, ps, hd, rn, fa, clk>>

\* View on the UI goroutine, between two messages: it reads filteredIndices.
R_Render ==
    /\ rc.pc.ui = "idle" /\ ~um.overflow
    /\ rc' = [rc EXCEPT !.seen = um.filteredIndices]
    /\ lastOp' = "render"
    /\ UNCHANGED <<impl, m, added, vm, um, fi, ix, ing, ui, ps, hd, rn, fa, clk>>

NextRace ==
    \/ R_SetIndexer
    \/ \E item \in RaceToggleItems : R_Toggle(item)
    \/ \E g \in Goroutines : R_Reset(g)
    \/ \E g \in Goroutines : R_Iterate(g)
    \/ \E g \in Goroutines : R_Finish(g)
    \/ R_Render

SpecRace == InitRace /\ [][NextRace]_vars

StrictlyIncreasing(s) == \A j \in 1..(Len(s) - 1) : s[j] < s[j + 1]

\* What one rebuild alone yields over the file, for each level mask the keys
\* of the model can set; the list is empty before the first rebuild.
CompleteRebuilds ==
    {<<>>} \cup
    {Unified_filterLoop([um EXCEPT !.file = added, !.totalLines = Len(added),
                                   !.showError = e, !.showInfo = i],
                        0, <<<<>>, <<>>>>)[1] : e \in BOOLEAN, i \in BOOLEAN}

\* C16: the filtered view is rebuilt atomically: under any interleaving of
\* SetIndexer/applyFilters on the ingestion goroutine with rebuilds and
\* renders on the UI goroutine, the filteredIndices the UI observes is the
\* complete result of one rebuild, strictly increasing and without
\* duplicates, never a partially built or doubly appended list.
C16_RebuildAtomic ==
    lastOp = "render" =>
        /\ StrictlyIncreasing(rc.seen)
        /\ rc.seen \in CompleteRebuilds


(***************************************************************************)
(* AddLogEntry specification: records are added one by one to a model      *)
(* built from a config with an include and an exclude list, and levels are *)
(* toggled in between.                                                     *)
(***************************************************************************)
Unified_AddLogEntry_NoInclude(u, entry) ==
    LET u1 == [u EXCEPT !.entries = Append(@, entry)] IN
    IF ~Unified_shouldShowLevel(u, entry.Level) \/ Unified_excluded(u, entry.Message)
    THEN u1
    ELSE [u1 EXCEPT !.filteredEntries = Append(@, entry)]

\* unified_model.go 1060-1110.
Unified_AddLogEntry(u, entry) ==
    LET u1 == [u EXCEPT !.entries = Append(@, entry)] IN
    IF ~Unified_shouldShowLevel(u, entry.Level) THEN u1
    ELSE IF Unified_excluded(u, entry.Message) THEN u1
    ELSE IF u.includeInput # <<>> /\ ~Unified_matched(u, entry.Message) THEN u1
    ELSE [u1 EXCEPT !.filteredEntries = Append(@, entry)]

AddRecords ==
    {Entry("INFO", <<"a">>), Entry("ERROR", <<"b">>), Entry("INFO", <<"a", "b">>)}

AddIncludes == {<<>>, <<"b">>}

AddExcludes == {<<>>, <<"a">>}

AddToggleItems == {4, 6}

InitAdd ==
    /\ impl \in {"Model", "UnifiedModel"}
    /\ lastOp = "init"
    /\ ps = Unused /\ rc = Unused /\ hd = Unused /\ rn = Unused
    /\ fa = Unused /\ clk = Unused
    /\ added = <<>>
    /\ \E include \in AddIncludes, exclude \in AddExcludes :
          /\ m = IF impl = "Model"
                 THEN Model_applyFilters(NewModelFields(MaxAdds, include, exclude))
                 ELSE ModelUnused
          /\ um = IF impl = "UnifiedModel"
                  THEN NewUnifiedModelFields(include, exclude)
                  ELSE UnifiedUnused
    /\ vm = Unused /\ fi = Unused /\ ix = Unused /\ ing = Unused /\ ui = Unused

U_AddLogEntry(entry) ==
    /\ impl = "UnifiedModel" /\ ~um.overflow
    /\ Len(added) + 1 <= MaxAdds
    /\ um' = Unified_AddLogEntry(um, entry)
    /\ added' = Append(added, entry)
    /\ lastOp' = "add"
    /\ UNCHANGED <<impl, m, vm, fi, ix, ing, ui, ps, rc, hd, rn, fa, clk>>

NextAdd ==
    \/ \E entry \in AddRecords : M_LogEntry(entry)
    \/ \E item \in AddToggleItems : M_Toggle(item)
    \/ \E entry \in AddRecords : U_AddLogEntry(entry)
    \/ \E item \in AddToggleItems : U_Toggle(item)

SpecAdd == InitAdd /\ [][NextAdd]_vars

\* The records of a list whose level the mask of model r shows.
ShownOf(r, records) ==
    LET Shown(e) == LevelShown(r, e.Level) IN SelectSeq(records, Shown)

\* C17: after any rebuild or AddLogEntry no record whose level is disabled in
\* the level mask is in the filtered view, and disabling a level removes only
\* the records of that level: with no include and no exclude pattern the
\* filtered view is the list of the records added whose level is enabled.
C17_LevelMask ==
    /\ (impl = "Model" /\ lastOp \in {"rebuild", "batch"}) =>
          /\ \A j \in 1..Len(m.filteredEntries) : LevelShown(m, m.filteredEntries[j].Level)
          /\ (m.includeInput = <<>> /\ m.excludeInput = <<>>) =>
                m.filteredEntries = ShownOf(m, added)
    /\ (impl = "UnifiedModel" /\ lastOp \in {"rebuild", "add"}) =>
          /\ \A j \in 1..Len(um.filteredEntries) :
                LevelShown(um, um.filteredEntries[j].Level)
          /\ (um.includeInput = <<>> /\ um.excludeInput = <<>>) =>
                um.filteredEntries = ShownOf(um, um.entries)


StoreSize ==
    CASE impl = "Model" -> m.buffer.size
      [] impl = "VirtualModel" -> Len(vm.streamBuffer)
      [] impl = "UnifiedModel" -> Len(um.entries)

VisibleSize ==
    CASE impl = "Model" -> Len(m.filteredEntries)
      [] impl = "VirtualModel" -> Len(vm.visibleEntries)
      [] impl = "UnifiedModel" -> Len(um.visibleEntries)

\* C19: no LogBatchMsg is dropped by the model the app runs: once Update has
\* returned, the records of every batch it was given are in the model's
\* store and records are visible in the viewport (Model, VirtualModel and
\* UnifiedModel).
C19_BatchesReachModel ==
    ui.pc = "idle" =>
        /\ StoreSize = ui.handled
        /\ ui.handled > 0 => VisibleSize > 0

\* C20: the pending batch never holds more records than the limit, it is
\* being flushed as soon as its size reaches the limit, and a non-empty
\* pending batch is being flushed once the flush interval has elapsed since
\* the last flush: the goroutine never waits for the next line of the pipe
\* with a non-empty batch whose interval has elapsed.
C20_FlushOnLimitOrInterval ==
    /\ ing.len <= BatchLimit
    /\ (ing.pc = "scan" /\ ing.len > 0) => ing.len < BatchLimit
    /\ (ing.pc = "scan" /\ ing.len > 0 /\ ing.next = ing.avail) => ~ing.elapsed

(***************************************************************************)
(* Read errors on the pipe (checked on SpecIngest).                        *)
(***************************************************************************)
\* C21: a read error on the pipe is swallowed.  Ingestion goes on to EOF, so
\* the goroutine only finishes once every line of the input has been read,
\* and the records already read, those of the pending batch included, are
\* delivered: once the goroutine has finished and the UI is idle, Update has
\* been given every record that was read.
C21_ReadErrorSwallowed ==
    /\ ing.pc = "done" => ing.next = Len(ing.input)
    /\ (ing.pc = "done" /\ ui.pc = "idle") => ui.handled = ing.next

(***************************************************************************)
(* File handle specification: the goroutine of UnifiedApp.processInput     *)
(* (part_001 54-88) or StreamReader.processFiles / indexLargeFile          *)
(* (app_v2.go 119-183) opens one indexer per file, and the UI quits on q.  *)
(* hd.files gives, for each file of the command line, what happens to it:  *)
(* os.Open fails, the indexing pass fails, or both succeed.                *)
(* hd.handles[i] is "none", "open" or "closed"; hd.indexer is the file     *)
(* whose indexer UnifiedModel.indexer points to (0 for nil).               *)
(***************************************************************************)
MaxFiles == 3      \* most files on the command line

FileOutcomes == {"ok", "openFails", "indexFails"}

FileLists == UNION {[1..k -> FileOutcomes] : k \in 1..MaxFiles}

InitHandles ==
    /\ impl \in {"UnifiedModel", "VirtualModel"}
    /\ lastOp = "init"
    /\ ps = Unused /\ rc = Unused /\ rn = Unused
    /\ fa = Unused /\ clk = Unused
    /\ added = <<>>
    /\ m = ModelUnused
    /\ vm = NewVirtualModelFields(1)
    /\ um = NewUnifiedModelFields(<<>>, <<>>)
    /\ fi = Unused /\ ix = Unused /\ ing = Unused /\ ui = Unused
    /\ \E files \in FileLists :
          hd = [files |-> files, next |-> 1, pc |-> "open",
                handles |-> [i \in 1..Len(files) |-> "none"],
                indexer |-> 0, quit |-> FALSE]

\* NewFastIndexer / NewFileIndexer: os.Open; on an error the file is skipped.
H_Open ==
    /\ ~hd.quit /\ hd.pc = "open" /\ hd.next <= Len(hd.files)
    /\ hd' = IF hd.files[hd.next] = "openFails"
             THEN [hd EXCEPT !.next = hd.next + 1]
             ELSE [hd EXCEPT !.handles[hd.next] = "open", !.pc = "index"]
    /\ UNCHANGED <<impl, lastOp, m, added, vm, um, fi, ix, ing, ui, ps, rc, rn, fa, clk>>

\* The indexing pass ends.  UnifiedApp.indexFile closes the indexer when the
\* pass failed and otherwise hands it to UnifiedModel.SetIndexer, which
\* overwrites m.indexer.  StreamReader.indexLargeFile keeps the indexer in
\* sr.indexers and just returns when IndexFile failed.
H_Index ==
    /\ ~hd.quit /\ hd.pc = "index"
    /\ hd' = IF impl = "UnifiedModel"
             THEN IF hd.files[hd.next] = "indexFails"
                  THEN [hd EXCEPT !.handles[hd.next] = "closed",
                                  !.next = hd.next + 1, !.pc = "open"]
                  ELSE [hd EXCEPT !.indexer = hd.next,
                                  !.next = hd.next + 1, !.pc = "open"]
             ELSE [hd EXCEPT !.next = hd.next + 1, !.pc = "open"]
    /\ UNCHANGED <<impl, lastOp, m, added, vm, um, fi, ix, ing, ui, ps, rc, rn, fa, clk>>

\* The user presses q or ctrl+c: UnifiedModel closes m.indexer if it is not
\* nil (unified_model.go 259-264, 330-335), VirtualModel returns tea.Quit
\* (model_v2.go 235-236).
H_Quit ==
    /\ ~hd.quit
    /\ hd' = IF impl = "UnifiedModel" /\ hd.indexer # 0
             THEN [hd EXCEPT !.handles[hd.indexer] = "closed", !.quit = TRUE]
             ELSE [hd EXCEPT !.quit = TRUE]
    /\ lastOp' = "quit"
    /\ UNCHANGED <<impl, m, added, vm, um, fi, ix, ing, ui, ps, rc, rn, fa, clk>>

NextHandles ==
    \/ H_Open
    \/ H_Index
    \/ H_Quit

SpecHandles == InitHandles /\ [][NextHandles]_vars

\* C22: when the UI has quit, every file handle an indexer opened has been
\* closed: no handle is left open, whether several files were opened one
\* after another or the indexing of a file failed.
C22_HandlesClosedOnQuit ==
    hd.quit => \A i \in 1..Len(hd.files) : hd.handles[i] # "open"

(***************************************************************************)
(* Match navigation specification: UnifiedModel with an indexed file, the  *)
(* include input and the level checkboxes edited, n and N pressed.         *)
(* um.panic: an index expression of the handler was out of range.          *)
(***************************************************************************)
\* unified_model.go 1024-1029 / 1041-1046: jump to the current match.
Unified_jumpToMatch(u) ==
    IF u.currentMatchIdx >= Len(u.matchedIndices) \/ u.currentMatchIdx < 0
    THEN [u EXCEPT !.panic = TRUE]
    ELSE LET matchPos == At(u.matchedIndices, u.currentMatchIdx)
             start == max(0, matchPos - GoDiv(u.viewportHeight, 2))
         IN Unified_loadVisibleLines(
                [u EXCEPT !.viewportStart = start, !.selectedIdx = matchPos - start])

\* unified_model.go 1014-1029.
Unified_nextMatch(u) ==
    IF Len(u.matchedIndices) = 0 THEN u
    ELSE LET c == u.currentMatchIdx + 1 IN
         Unified_jumpToMatch(
             [u EXCEPT !.currentMatchIdx = IF c >= Len(u.matchedIndices) THEN 0 ELSE c])

\* unified_model.go 1031-1046.
Unified_prevMatch(u) ==
    IF Len(u.matchedIndices) = 0 THEN u
    ELSE LET c == u.currentMatchIdx - 1 IN
         Unified_jumpToMatch(
             [u EXCEPT !.currentMatchIdx = IF c < 0 THEN Len(u.matchedIndices) - 1 ELSE c])

MatchEntryLists ==
    {<<Entry("INFO", <<"b">>), Entry("ERROR", <<"a">>), Entry("INFO", <<"a", "b">>),
       Entry("ERROR", <<"b">>)>>,
     <<Entry("ERROR", <<"b">>), Entry("INFO", <<"b">>), Entry("ERROR", <<"b", "b">>)>>,
     <<Entry("INFO", <<"a">>)>>}

MatchIncludes == {<<>>, <<"b">>}

MatchHeights == {12, 13}

InitMatch ==
    /\ impl = "UnifiedModel"
    /\ lastOp = "init"
    /\ ps = Unused /\ rc = Unused /\ hd = Unused /\ rn = Unused
    /\ fa = Unused /\ clk = Unused
    /\ added \in MatchEntryLists
    /\ m = ModelUnused
    /\ um = Unified_SetIndexer(UnifiedUnused, added)
    /\ vm = Unused /\ fi = Unused /\ ix = Unused /\ ing = Unused /\ ui = Unused

\* updateRightPanel "n" (unified_model.go 376-378).
N_Next ==
    /\ ~um.panic /\ ~um.overflow
    /\ um' = Unified_nextMatch(um)
    /\ lastOp' = "n"
    /\ UNCHANGED <<impl, added, m, vm, fi, ix, ing, ui, ps, rc, hd, rn, fa, clk>>

\* updateRightPanel "N" (unified_model.go 380-382).
N_Prev ==
    /\ ~um.panic /\ ~um.overflow
    /\ um' = Unified_prevMatch(um)
    /\ lastOp' = "N"
    /\ UNCHANGED <<impl, added, m, vm, fi, ix, ing, ui, ps, rc, hd, rn, fa, clk>>

\* The include input is replaced (typed in edit mode), then applyFilters.
N_Include(text) ==
    /\ ~um.panic /\ ~um.overflow /\ text # um.includeInput
    /\ um' = Unified_applyFilters([um EXCEPT !.includeInput = text])
    /\ lastOp' = "rebuild"
    /\ UNCHANGED <<impl, added, m, vm, fi, ix, ing, ui, ps, rc, hd, rn, fa, clk>>

\* The INFO checkbox is flipped, then applyFilters.
N_Toggle ==
    /\ ~um.panic /\ ~um.overflow
    /\ um' = Unified_toggle(um, 6)
    /\ lastOp' = "rebuild"
    /\ UNCHANGED <<impl, added, m, vm, fi, ix, ing, ui, ps, rc, hd, rn, fa, clk>>

N_WindowSize(height) ==
    /\ ~um.panic /\ ~um.overflow
    /\ um' = Unified_WindowSize(um, height)
    /\ lastOp' = "resize"
    /\ UNCHANGED <<impl, added, m, vm, fi, ix, ing, ui, ps, rc, hd, rn, fa, clk>>

NextMatch ==
    \/ N_Next
    \/ N_Prev
    \/ \E text \in MatchIncludes : N_Include(text)
    \/ N_Toggle
    \/ \E height \in MatchHeights : N_WindowSize(height)

SpecMatch == InitMatch /\ [][NextMatch]_vars

\* What n or N must leave behind, given the state u before the key and the
\* index the key is to select.
MatchSelected(u, v, idx) ==
    /\ ~v.panic
    /\ v.currentMatchIdx = idx
    /\ v.viewportStart + v.selectedIdx = At(v.matchedIndices, idx)

\* C23: with n >= 1 matches, n sets currentMatchIdx to (old+1) mod n and N
\* sets it to (old-1) mod n, N after n restores the index, and after either key
\* the selected filtered position viewportStart+selectedIdx is
\* matchedIndices[currentMatchIdx]; with no match both keys change nothing.
C23_MatchNavigationCyclic ==
    [][ /\ N_Next =>
            IF um.matchedIndices = <<>> THEN um' = um
            ELSE /\ MatchSelected(um, um', (um.currentMatchIdx + 1) % Len(um.matchedIndices))
                 /\ Unified_prevMatch(um').currentMatchIdx = um.currentMatchIdx
        /\ N_Prev =>
            IF um.matchedIndices = <<>> THEN um' = um
            ELSE MatchSelected(um, um', (um.currentMatchIdx - 1) % Len(um.matchedIndices))
      ]_vars

(***************************************************************************)
(* The g key (checked on SpecG).  Time is counted in ticks of 250 ms since *)
(* the Unix epoch, which lies more than 500 ms before the program starts;  *)
(* clk.now is the clock (time.Now), clk.lastG the time of the latest g     *)
(* press (0: none yet).  Model and UnifiedModel keep lastGPress; FastApp   *)
(* (fast_app.go) has no such field.                                        *)
(***************************************************************************)
GWindow == 2       \* 500 ms, in ticks
MaxTime == 5       \* ticks the clock runs for

\* model.go 405-416.
Model_keyG(mm, now) ==
    IF mm.lastGPress > 0 /\ now - mm.lastGPress < GWindow
    THEN Model_keyGG(mm)
    ELSE [mm EXCEPT !.lastGPress = now]

\* unified_model.go 368-374.
Unified_keyG(u, now) ==
    [(IF now - u.lastGPress < GWindow THEN Unified_scrollToTop(u) ELSE u)
        EXCEPT !.lastGPress = now]

\* NewFastApp (fast_app.go 42-83) once indexInBackground (85-99) is over.
\* entries is len(app.entries), what GetLineRange(viewStart, viewStart +
\* viewHeight) returned.
FastApp_load(f) ==
    [f EXCEPT !.entries = max(0, min(f.totalLines, f.viewStart + f.viewHeight) - f.viewStart)]

NewFastAppFields(totalLines, viewHeight) ==
    FastApp_load([totalLines |-> totalLines, viewStart |-> 0, viewHeight |-> viewHeight,
                  selectedLine |-> 0, entries |-> 0])

\* fast_app.go 269-291.
FastApp_scrollDown(f) ==
    LET s == f.selectedLine + 1 IN
    IF s >= f.viewHeight - 2
    THEN LET v1 == f.viewStart + 1
             v2 == IF v1 + f.viewHeight > f.totalLines
                   THEN max(0, f.totalLines - f.viewHeight) ELSE v1
         IN FastApp_load([f EXCEPT !.selectedLine = f.viewHeight - 3, !.viewStart = v2])
    ELSE [f EXCEPT !.selectedLine = s]

\* fast_app.go 353-365.
FastApp_scrollToTop(f) == FastApp_load([f EXCEPT !.viewStart = 0, !.selectedLine = 0])

\* fast_app.go 367-385.
FastApp_scrollToBottom(f) ==
    LET s == f.viewHeight - 3 IN
    FastApp_load([f EXCEPT !.viewStart = max(0, f.totalLines - f.viewHeight),
                           !.selectedLine = IF s >= f.entries THEN f.entries - 1 ELSE s])

\* FastApp.Update, tea.KeyMsg (fast_app.go 143-171): g scrolls to the top.
FastApp_key(f, key) ==
    CASE key = "down" -> FastApp_scrollDown(f)
      [] key = "G" -> FastApp_scrollToBottom(f)
      [] key = "g" -> FastApp_scrollToTop(f)

GEntries == <<Entry("INFO", <<"a">>), Entry("ERROR", <<"b">>), Entry("INFO", <<"c">>)>>

GViewHeights == {40, 4}

InitG ==
    /\ impl \in {"Model", "UnifiedModel", "FastApp"}
    /\ lastOp = "init"
    /\ ps = Unused /\ rc = Unused /\ hd = Unused /\ rn = Unused
    /\ added = GEntries
    /\ m = IF impl = "Model"
           THEN Model_AddLogBatch(
                    Model_applyFilters(
                        [NewModelFields(Len(added), <<>>, <<>>) EXCEPT !.height = 12]),
                    added)
           ELSE ModelUnused
    /\ um = IF impl = "UnifiedModel" THEN Unified_SetIndexer(UnifiedUnused, added)
            ELSE UnifiedUnused
    /\ \E viewHeight \in GViewHeights :
          fa = IF impl = "FastApp" THEN NewFastAppFields(Len(added), viewHeight)
               ELSE NewFastAppFields(0, 40)
    /\ clk = [now |-> GWindow + 1, lastG |-> 0]
    /\ vm = Unused /\ fi = Unused /\ ix = Unused /\ ing = Unused /\ ui = Unused

\* 250 ms pass.
G_Tick ==
    /\ clk.now < GWindow + MaxTime
    /\ clk' = [clk EXCEPT !.now = clk.now + 1]
    /\ UNCHANGED <<impl, lastOp, m, added, vm, um, fi, ix, ing, ui, ps, rc, hd, rn, fa>>

\* The g key, handled by the model the app runs.
G_KeyG ==
    /\ m' = IF impl = "Model" THEN Model_keyG(m, clk.now) ELSE m
    /\ um' = IF impl = "UnifiedModel" THEN Unified_keyG(um, clk.now) ELSE um
    /\ fa' = IF impl = "FastApp" THEN FastApp_key(fa, "g") ELSE fa
    /\ clk' = [clk EXCEPT !.lastG = clk.now]
    /\ lastOp' = "g"
    /\ UNCHANGED <<impl, added, vm, fi, ix, ing, ui, ps, rc, hd, rn>>

\* A key that moves the view away from the top.
G_KeyOther(key) ==
    /\ m' = IF impl = "Model" THEN Model_key(m, key) ELSE m
    /\ um' = IF impl = "UnifiedModel" THEN Unified_key(um, key) ELSE um
    /\ fa' = IF impl = "FastApp" THEN FastApp_key(fa, key) ELSE fa
    /\ lastOp' = "key"
    /\ UNCHANGED <<impl, added, vm, fi, ix, ing, ui, ps, rc, hd, rn, clk>>

NextG ==
    \/ G_Tick
    \/ G_KeyG
    \/ \E key \in {"down", "G"} : G_KeyOther(key)

SpecG == InitG /\ [][NextG]_vars

\* Viewport, selection and tailing of the running model.
ViewOf(mm, u, f) ==
    CASE impl = "Model" -> <<mm.scrollOffset, mm.selectedIdx, mm.tailing>>
      [] impl = "UnifiedModel" -> <<u.viewportStart, u.selectedIdx, u.tailing>>
      [] OTHER -> <<f.viewStart, f.selectedLine, FALSE>>

\* No g was pressed in the GWindow ticks before now.
IsolatedG == clk.lastG = 0 \/ clk.now - clk.lastG >= GWindow

\* C24: a g press moves the view to the top only when another g was pressed
\* less than 500 ms before it: an isolated g leaves viewport, selection and
\* tailing as they were.
C24_IsolatedGChangesNothing ==
    [][ (G_KeyG /\ IsolatedG) => ViewOf(m', um', fa') = ViewOf(m, um, fa) ]_vars

(***************************************************************************)
(* Tailing and the filter rebuild (checked on SpecFilter).                 *)
(***************************************************************************)
\* C25: after a filter rebuild with tailing enabled and a non-empty filtered
\* view, the selection is the last filtered entry, also when the match index
\* is non-empty: tailing overrides the jump to the most recent match.
C25_TailingSelectsLast ==
    lastOp = "rebuild" =>
        /\ (impl = "Model" /\ m.tailing /\ m.filteredEntries # <<>>) =>
               m.selectedIdx = Len(m.filteredEntries) - 1
        /\ (impl = "UnifiedModel" /\ ~um.overflow /\ um.tailing /\ um.filteredIndices # <<>>) =>
               um.viewportStart + um.selectedIdx = Len(um.filteredIndices) - 1

(***************************************************************************)
(* Format tiers of the parser (checked on SpecParse).                      *)
(***************************************************************************)
\* s holds a terminal escape sequence ESC [ params letter.
HasEscapeSequence(s) ==
    \E k \in 1..(Len(s) - 2) :
        /\ s[k] = ESC /\ s[k + 1] = "["
        /\ LET j == ParamsEnd(s, k + 2) IN j <= Len(s) /\ IsLetter(s[j])

\* C26: whichever format tier parses a line, the record's message holds no
\* terminal escape sequence ESC [ params letter, also when removing one
\* sequence joins the bytes around it into a new one.
C26_MessageWithoutEscapes ==
    ps.pc = "parsed" => ~HasEscapeSequence(ps.entry.Message)

RecognizedFields ==
    {"timeUnixNano", "severityNumber", "severityText", "body", "attributes",
     "resource", "instrumentationScope"}

\* The line is the text of a JSON object with at least one recognized field.
HasRecognizedField(line) ==
    LET d == Decode(line) IN
    /\ d.valid /\ d.doc.t = "object"
    /\ \E key \in RecognizedFields : HasKey(d.doc.members, key)

\* C28: ParseLogLine takes the OTLP tier only for a line that is valid JSON
\* with at least one recognized field; valid JSON with none of them ({},
\* null, an object with other keys only) goes on to the later tiers.
C28_OtlpNeedsRecognizedField ==
    (ps.pc = "parsed" /\ ps.tier = "otlp") => HasRecognizedField(ps.line)

\* The level the rule of the timed-structured format gives a remainder, the
\* keywords looked up without regard to case and in this order.
TimedLevel(remainder) ==
    LET u == ToUpper(remainder) IN
    IF \E w \in {WordSQL, WordSELECT, WordINSERT, WordUPDATE, WordDELETE} : Contains(u, w)
    THEN "DEBUG"
    ELSE IF Contains(u, WordERROR) THEN "ERROR"
    ELSE IF Contains(u, WordWARN) THEN "WARN"
    ELSE "INFO"

\* C29: for a timed-structured line the level is Debug if the remainder
\* contains SQL, SELECT, INSERT, UPDATE or DELETE, Error if it contains
\* ERROR, Warn if it contains WARN, else Info, the rules applied in that order.
C29_TimedLevelOrder ==
    (ps.pc = "parsed" /\ ps.tier = "timed") => ps.entry.Level = TimedLevel(ps.entry.Message)

(***************************************************************************)
(* Fetch fidelity (checked on SpecCache).                                  *)
(***************************************************************************)
\* C27: fetching line i, by FastIndexer.GetLineRange(i, i+1) or by
\* FileIndexer.GetLine(i), yields the i-th line of the file byte for byte,
\* terminator included: the record's raw field is bytes
\* [offset_i, offset_i + length_i) of the file.
C27_FetchByteForByte ==
    (/\ lastOp \in {"GetLineRange", "GetLine"}
     /\ fi.end = fi.start + 1
     /\ 0 <= fi.start /\ fi.start < Len(fi.indices))
    => /\ Len(fi.result) = 1
       /\ fi.result[1].Raw = LineBytes(fi, fi.start)

(***************************************************************************)
(* Column rendering specification: UnifiedModel.renderLogHeader and        *)
(* formatLogEntryColumns (unified_model.go 1135-1184) called with a width  *)
(* and an entry.  Strings are sequences of characters; rn.panic: a slice   *)
(* bound was out of range.                                                 *)
(***************************************************************************)
MinWidth == 3      \* widths tried go down to -MinWidth
MaxWidth == 33     \* and up to MaxWidth
MaxMessage == 4    \* longest message

TimeWidth == 19
LevelWidth == 5
Borders == 4

\* fmt's %-*s: the text, padded with blanks on the right to the width.
PadRight(s, w) == s \o [k \in 1..max(0, w - Len(s)) |-> " "]

\* fmt.Sprintf("%-*s | %-*s | %s", timeWidth, a, levelWidth, b, c).
Columns(a, b, c) ==
    PadRight(a, TimeWidth) \o <<" ", "|", " ">> \o PadRight(b, LevelWidth)
        \o <<" ", "|", " ">> \o c

\* s[:to] of Go: a panic unless 0 <= to <= len(s).
SliceTo(s, to) ==
    IF to < 0 \/ to > Len(s) THEN [panic |-> TRUE, out |-> <<>>]
    ELSE [panic |-> FALSE, out |-> SubSeq(s, 1, to)]

\* LogLevel.String (types.go 25-38), as characters.
LevelString(level) ==
    CASE level = "DEBUG" -> WordDEBUG
      [] level = "INFO" -> WordINFO
      [] level = "WARN" -> WordWARN
      [] level = "ERROR" -> WordERROR
      [] OTHER -> <<"U", "N", "K", "N", "O", "W", "N">>

Unified_renderLogHeader(width) ==
    LET messageWidth == width - TimeWidth - LevelWidth - Borders IN
    IF width <= 0 \/ messageWidth <= 0 THEN [panic |-> FALSE, out |-> <<>>]
    ELSE [panic |-> FALSE,
          out |-> Columns(<<"T", "I", "M", "E">>, <<"L", "E", "V", "E", "L">>,
                          <<"M", "E", "S", "S", "A", "G", "E">>)]

Unified_formatLogEntryColumns(entry, width) ==
    LET messageWidth == width - TimeWidth - LevelWidth - Borders
        cut == SliceTo(entry.Message, messageWidth - 3)
    IN IF width <= 0 THEN [panic |-> FALSE, out |-> <<>>]
       ELSE IF messageWidth <= 0
       THEN SliceTo(entry.Message, min(Len(entry.Message), width))
       ELSE IF Len(entry.Message) > messageWidth
       THEN IF cut.panic THEN cut
            ELSE [panic |-> FALSE,
                  out |-> Columns(entry.Timestamp, LevelString(entry.Level),
                                  cut.out \o <<".", ".", ".">>)]
       ELSE [panic |-> FALSE,
             out |-> Columns(entry.Timestamp, LevelString(entry.Level), entry.Message)]

RenderEntries ==
    {LogEntry(<<"t">>, "INFO", [k \in 1..n |-> "x"], <<>>) : n \in 0..MaxMessage}

InitRender ==
    /\ impl = "UnifiedModel"
    /\ lastOp = "init"
    /\ ps = Unused /\ rc = Unused /\ hd = Unused
    /\ fa = Unused /\ clk = Unused
    /\ added = <<>>
    /\ m = ModelUnused /\ vm = NewVirtualModelFields(1) /\ um = UnifiedUnused
    /\ fi = Unused /\ ix = Unused /\ ing = Unused /\ ui = Unused
    /\ \E width \in (-MinWidth)..MaxWidth, entry \in RenderEntries :
          rn = [pc |-> "call", width |-> width, entry |-> entry,
                panic |-> FALSE, out |-> <<>>]

R_renderLogHeader ==
    /\ rn.pc = "call"
    /\ LET r == Unified_renderLogHeader(rn.width)
       IN rn' = [rn EXCEPT !.pc = "header", !.panic = r.panic, !.out = r.out]
    /\ lastOp' = "renderLogHeader"
    /\ UNCHANGED <<impl, m, added, vm, um, fi, ix, ing, ui, ps, rc, hd, fa, clk>>

R_formatLogEntryColumns ==
    /\ rn.pc = "call"
    /\ LET r == Unified_formatLogEntryColumns(rn.entry, rn.width)
       IN rn' = [rn EXCEPT !.pc = "columns", !.panic = r.panic, !.out = r.out]
    /\ lastOp' = "formatLogEntryColumns"
    /\ UNCHANGED <<impl, m, added, vm, um, fi, ix, ing, ui, ps, rc, hd, fa, clk>>

NextRender ==
    \/ R_renderLogHeader
    \/ R_formatLogEntryColumns

SpecRender == InitRender /\ [][NextRender]_vars

\* C30: for every width (negative, zero, small, large) and every entry,
\* renderLogHeader and formatLogEntryColumns return without panicking, every
\* slice bound staying within 0..len(message), and the result is the empty
\* string when width <= 0.
C30_RenderingNeverPanics ==
    rn.pc \in {"header", "columns"} =>
        /\ ~rn.panic
        /\ rn.width <= 0 => rn.out = <<>>

(***************************************************************************)
(* End of the piped input (checked on SpecIngest).                         *)
(***************************************************************************)
\* Records the ingester has handed to program.Send so far.
SentToUI == ui.handled + (IF ui.pc = "reading" THEN ui.n ELSE 0)

\* C35: when the piped input reaches EOF the ingester sends the partially
\* filled pending batch before it terminates: once it has terminated at EOF,
\* no record remains pending and every record read from the input has been
\* sent to the UI.
C35_PendingBatchSentAtEof ==
    (ing.pc = "done" /\ ing.atEof >= 0) =>
        /\ ing.len = 0
        /\ ing.next = Len(ing.input)
        /\ SentToUI = ing.next

\* EOF found a partially filled batch, and the ingester has terminated.
C35_Witness ==
    /\ ing.pc = "done" /\ ing.atEof > 0 /\ ing.atEof < BatchLimit
    /\ SentToUI = Len(ing.input)

(***************************************************************************)
(* Parse-cache eviction (checked on SpecCache).                            *)
(***************************************************************************)
\* The uncached lines a fetch of lines start..end-1 reads and inserts.
Inserted(f, start, end) ==
    {i \in max(0, start)..(min(end, f.totalLines) - 1) : i \notin DOMAIN f.cache}

InWindow(k, i) == i - GoDiv(CacheSize, 2) <= k /\ k <= i + GoDiv(CacheSize, 2)

\* The fetch inserted exactly line i and the insertion overfilled the cache, so
\* that the eviction loop ran.
EvictionRanAfter(i) ==
    /\ lastOp' \in {"GetLineRange", "GetLine"}
    /\ Inserted(fi, fi'.start, fi'.end) = {i}
    /\ Cardinality(DOMAIN fi.cache) + 1 > CacheSize

\* C33: when parse-cache eviction runs after inserting line i, it removes only
\* entries whose index lies outside the window [i - C/2, i + C/2]: the entry
\* just inserted for i and every cached entry inside the window are still
\* cached afterwards.
C33_EvictionKeepsWindow ==
    [][\A i \in 0..MaxLine :
          EvictionRanAfter(i) =>
              \A k \in DOMAIN fi.cache \cup {i} :
                  InWindow(k, i) => k \in DOMAIN fi'.cache]_vars

\* The same for FastIndexer.GetLineRange alone.
C33_FastEvictionKeepsWindow ==
    [][\A i \in 0..MaxLine :
          (impl = "FastIndexer" /\ EvictionRanAfter(i)) =>
              \A k \in DOMAIN fi.cache \cup {i} :
                  InWindow(k, i) => k \in DOMAIN fi'.cache]_vars

(***************************************************************************)
(* The two read paths of FastIndexer.GetLineRange (checked on SpecCache).  *)
(***************************************************************************)
\* The uncached line numbers of GetLineRange(start, end), in file order.
Uncached(f, start, end) ==
    SelectSeq(Range(max(0, start), min(end, f.totalLines)),
              LAMBDA i : i \notin DOMAIN f.cache)

\* The records GetLineRange(start, end) takes from the cache.
CachedEntries(f, start, end) ==
    LET hits == SelectSeq(Range(max(0, start), min(end, f.totalLines)),
                          LAMBDA i : i \in DOMAIN f.cache)
    IN [k \in 1..Len(hits) |-> f.cache[hits[k]]]

\* fast_indexer.go 161: len(uncachedIndices) > 1 && isConsecutive(...).
IsConsecutiveRun(uncached) ==
    Len(uncached) > 1 /\ Last(uncached) - uncached[1] = Len(uncached) - 1

\* C34: for every contiguous range of uncached lines, the batched path of
\* GetLineRange (one positional read, then slicing) produces the same records
\* and the same cache contents as fetching each index with its own positional
\* read, for every line content.
C34_BatchedEqualsIndividual ==
    [][(/\ impl = "FastIndexer" /\ lastOp' = "GetLineRange"
        /\ IsConsecutiveRun(Uncached(fi, fi'.start, fi'.end)))
       => [cache |-> fi'.cache, entries |-> fi'.result]
              \in Fast_readEach(fi, fi.cache,
                                CachedEntries(fi, fi'.start, fi'.end),
                                Uncached(fi, fi'.start, fi'.end))]_vars

\* The same for the records alone, on files without CR LF line ends.
C34_SameRecordsWithoutCR ==
    [][(/\ impl = "FastIndexer" /\ lastOp' = "GetLineRange"
        /\ \A i \in 1..Len(fi.file) : fi.file[i] # "\r"
        /\ IsConsecutiveRun(Uncached(fi, fi'.start, fi'.end)))
       => fi'.result
              \in {r.entries : r \in Fast_readEach(fi, fi.cache,
                                        CachedEntries(fi, fi'.start, fi'.end),
                                        Uncached(fi, fi'.start, fi'.end))}]_vars

(***************************************************************************)
(* The index nextMatch and prevMatch read with (checked on SpecMatch).     *)
(***************************************************************************)
\* C36: after any sequence of filter rebuilds and n/N presses, whenever
\* matchedIndices is non-empty the index nextMatch or prevMatch has just read
\* it with lies in 0..len(matchedIndices)-1, also after a rebuild has shrunk
\* the match list.
C36_MatchIndexInRange ==
    (lastOp \in {"n", "N"} /\ Len(um.matchedIndices) > 0) =>
        /\ 0 <= um.currentMatchIdx
        /\ um.currentMatchIdx < Len(um.matchedIndices)

\* The same for n alone.
C36_NextMatchIndexInRange ==
    (lastOp = "n" /\ Len(um.matchedIndices) > 0) =>
        /\ 0 <= um.currentMatchIdx
        /\ um.currentMatchIdx < Len(um.matchedIndices)

(***************************************************************************)
(* Selection bounds of Model (checked on SpecStream).                      *)
(***************************************************************************)
\* C37: in Model, after any sequence of key events, incoming records and
\* filter changes, selectedIdx >= 0 and scrollOffset >= 0, and selectedIdx <
\* len(filteredEntries) whenever the filtered view is non-empty (End or G
\* pressed on an empty view included).
C37_ModelSelectionInRange ==
    impl = "Model" =>
        /\ m.selectedIdx >= 0
        /\ m.scrollOffset >= 0
        /\ Len(m.filteredEntries) > 0 => m.selectedIdx < Len(m.filteredEntries)

\* The upper bound alone.
C37_ModelSelectionBelowLen ==
    (impl = "Model" /\ Len(m.filteredEntries) > 0) =>
        m.selectedIdx < Len(m.filteredEntries)

\* The lower bounds while the filtered view is non-empty.
C37_ModelSelectionNonNegative ==
    (impl = "Model" /\ Len(m.filteredEntries) > 0) =>
        m.selectedIdx >= 0 /\ m.scrollOffset >= 0

(***************************************************************************)
(* Selection bounds of UnifiedModel (checked on SpecFilter).               *)
(***************************************************************************)
\* C38: in UnifiedModel, after any sequence of scroll operations, window
\* resizes and filter rebuilds, viewportStart >= 0 and selectedIdx >= 0, and
\* when the filtered view is non-empty the selected filtered position
\* viewportStart + selectedIdx is below len(filteredIndices): a rebuild that
\* shrinks the view clamps the selection into range.
C38_UnifiedSelectionInRange ==
    (impl = "UnifiedModel" /\ ~um.overflow) =>
        /\ um.viewportStart >= 0
        /\ um.selectedIdx >= 0
        /\ Len(um.filteredIndices) > 0 =>
               um.viewportStart + um.selectedIdx < Len(um.filteredIndices)

\* The lower bounds alone.
C38_UnifiedSelectionNonNegative ==
    (impl = "UnifiedModel" /\ ~um.overflow) =>
        um.viewportStart >= 0 /\ um.selectedIdx >= 0

\* The upper bound after scroll operations and resizes.
C38_UnifiedScrollInRange ==
    (impl = "UnifiedModel" /\ ~um.overflow /\ lastOp \in {"key", "resize"}
        /\ Len(um.filteredIndices) > 0) =>
            um.viewportStart + um.selectedIdx < Len(um.filteredIndices)

(***************************************************************************)
(* The selection of Model across an arriving batch (checked on SpecStream).*)
(***************************************************************************)
\* The record under the selection, when the selection is on a record.
HasSelected(mm) == 0 <= mm.selectedIdx /\ mm.selectedIdx < Len(mm.filteredEntries)

Selected(mm) == At(mm.filteredEntries, mm.selectedIdx)

\* C39: while tailing is disabled, processing a newly arrived batch leaves the
\* selection on the same record: AddLogBatch / AddLogEntry does not move the
\* selection to another record (the filter does not change in the step).
C39_BrowsingSelectionStable ==
    [][(impl = "Model" /\ lastOp' = "batch" /\ ~m.tailing /\ HasSelected(m))
       => (HasSelected(m') /\ Selected(m') = Selected(m))]_vars

\* The same while no record is evicted from the buffer and no include pattern
\* is set: the selected index and the records up to it are unchanged.
C39_StableWithoutEvictionAndMatches ==
    [][(/\ impl = "Model" /\ lastOp' = "batch" /\ ~m.tailing /\ HasSelected(m)
        /\ Len(added') <= m.buffer.maxSize
        /\ m.includeInput = <<>>)
       => /\ m'.selectedIdx = m.selectedIdx
          /\ SubSeq(m'.filteredEntries, 1, Len(m.filteredEntries)) = m.filteredEntries]_vars

(***************************************************************************)
(* Key handling specification: Model.Update on tea.KeyMsg, in model.go     *)
(* (impl "Model") and in the earlier Model of unnamed/part_003 (impl       *)
(* "Model_part_003").  m carries, besides the fields of NewModelFields,    *)
(* focus, viewMode, editMode, activeInput, leftPanelItem and quit (Update  *)
(* returned tea.Quit).  lastOp is the key of the last KeyMsg.              *)
(***************************************************************************)
\* NewModel: model.go 97-98, part_003 84-85.
NewKeyFields ==
    [focus |-> "RightPanel", viewMode |-> "NormalView", editMode |-> FALSE,
     activeInput |-> "nil", leftPanelItem |-> 0, quit |-> FALSE]

\* The keys that are runes: a focused textinput appends them to its value.
Runes == {"q", "/", "\\", "i", "c", "b", "3"}

\* textinput.Update on a key: runes are inserted, backspace deletes, the keys
\* sent here otherwise leave the value alone.
Textinput_Update(value, key) ==
    IF key \in Runes \cup {"backspace"} THEN TextAfterKey(value, key) ELSE value

\* model.go 290-362 on the keys sent here.
Model_updateLeftPanel(mm, key) ==
    CASE key = "up" ->
             IF mm.leftPanelItem > 0
             THEN [mm EXCEPT !.leftPanelItem = mm.leftPanelItem - 1] ELSE mm
      [] key = "down" ->
             IF mm.leftPanelItem < 7
             THEN [mm EXCEPT !.leftPanelItem = mm.leftPanelItem + 1] ELSE mm
      [] key = "i" ->
             IF mm.leftPanelItem = 0
             THEN [mm EXCEPT !.editMode = TRUE, !.activeInput = "includeInput"]
             ELSE IF mm.leftPanelItem = 1
             THEN [mm EXCEPT !.editMode = TRUE, !.activeInput = "excludeInput"]
             ELSE mm
      [] key = "3" -> Model_applyFilters([mm EXCEPT !.showInfo = ~mm.showInfo])
      [] OTHER -> mm

\* model.go 364-425 on the keys sent here.
Model_updateRightPanel(mm, key) ==
    IF key \in {"up", "down", "end"} THEN Model_key(mm, key) ELSE mm

\* model.go 186-209: a key while a text input is being edited.
Model_updateEditMode(mm, key) ==
    CASE key = "esc" -> [mm EXCEPT !.activeInput = "nil", !.editMode = FALSE]
      [] key = "enter" ->
             Model_applyFilters([mm EXCEPT !.activeInput = "nil", !.editMode = FALSE])
      [] OTHER ->
             Model_applyFilters(
                 IF mm.activeInput = "includeInput"
                 THEN [mm EXCEPT !.includeInput = Textinput_Update(mm.includeInput, key)]
                 ELSE [mm EXCEPT !.excludeInput = Textinput_Update(mm.excludeInput, key)])

\* model.go 211-271: a key in the list view outside edit mode.
Model_updateNormal(mm, key) ==
    CASE key = "q" -> [mm EXCEPT !.quit = TRUE]
      [] key = "tab" ->
             IF mm.focus = "LeftPanel"
             THEN [mm EXCEPT !.focus = "RightPanel"]
             ELSE [mm EXCEPT !.focus = "LeftPanel", !.leftPanelItem = 0]
      [] key = "/" ->
             [mm EXCEPT !.focus = "LeftPanel", !.leftPanelItem = 0,
                        !.editMode = TRUE, !.activeInput = "includeInput"]
      [] key = "\\" ->
             [mm EXCEPT !.focus = "LeftPanel", !.leftPanelItem = 1,
                        !.editMode = TRUE, !.activeInput = "excludeInput"]
      [] key = "c" ->
             Model_applyFilters([mm EXCEPT !.includeInput = <<>>, !.excludeInput = <<>>])
      [] key = "enter" ->
             IF mm.focus = "RightPanel" /\ Len(mm.filteredEntries) > 0
             THEN [mm EXCEPT !.viewMode = "DetailView"] ELSE mm
      [] OTHER ->
             IF mm.focus = "LeftPanel"
             THEN Model_updateLeftPanel(mm, key)
             ELSE Model_updateRightPanel(mm, key)

\* A variant in which the detail view hands every key but esc and q on to
\* the list view's handlers.
Model_UpdateKey_DetailFallsThrough(mm, key) ==
    IF mm.viewMode = "DetailView" /\ key \in {"esc", "q"}
    THEN [mm EXCEPT !.viewMode = "NormalView"]
    ELSE IF mm.editMode /\ mm.activeInput # "nil"
    THEN Model_updateEditMode(mm, key)
    ELSE Model_updateNormal(mm, key)

\* Model.Update, case tea.KeyMsg (model.go 174-271).
Model_UpdateKey(mm, key) ==
    IF mm.viewMode = "DetailView"
    THEN (IF key \in {"esc", "q"} THEN [mm EXCEPT !.viewMode = "NormalView"] ELSE mm)
    ELSE IF mm.editMode /\ mm.activeInput # "nil"
    THEN Model_updateEditMode(mm, key)
    ELSE Model_updateNormal(mm, key)

\* part_003 1188-1246: applyFilters of the earlier Model.
Part003_anyContains(patterns, message) ==
    \E i \in 1..Len(patterns) :
        patterns[i] # <<>> /\ Contains(ToLower(message), ToLower(patterns[i]))

Part003_keeps(mm, entry) ==
    LET includePatterns == CleanPatterns(mm.includeInput)
        excludePatterns == CleanPatterns(mm.excludeInput)
    IN /\ Model_shouldShowLevel(mm, entry.Level)
       /\ (Len(includePatterns) > 0 /\ includePatterns[1] # <<>>)
              => Part003_anyContains(includePatterns, entry.Message)
       /\ ~(/\ Len(excludePatterns) > 0 /\ excludePatterns[1] # <<>>
            /\ Part003_anyContains(excludePatterns, entry.Message))

Part003_applyFilters(mm) ==
    LET filtered == SelectSeq(mm.entries, LAMBDA entry : Part003_keeps(mm, entry))
        s1 == IF mm.selectedIdx >= Len(filtered) THEN Len(filtered) - 1 ELSE mm.selectedIdx
    IN [mm EXCEPT !.filteredEntries = filtered, !.selectedIdx = IF s1 < 0 THEN 0 ELSE s1]

\* part_003 258-276.
Part003_updateLeftPanel(mm, key) ==
    IF key = "3" THEN Part003_applyFilters([mm EXCEPT !.showInfo = ~mm.showInfo]) ELSE mm

\* part_003 278-299.
Part003_updateRightPanel(mm, key) ==
    CASE key = "up" ->
             IF mm.selectedIdx > 0
             THEN Model_adjustScrollOffset([mm EXCEPT !.selectedIdx = mm.selectedIdx - 1])
             ELSE mm
      [] key = "down" ->
             IF mm.selectedIdx < Len(mm.filteredEntries) - 1
             THEN Model_adjustScrollOffset([mm EXCEPT !.selectedIdx = mm.selectedIdx + 1])
             ELSE mm
      [] key = "end" ->
             Model_adjustScrollOffset([mm EXCEPT !.selectedIdx = Len(mm.filteredEntries) - 1])
      [] OTHER -> mm

\* part_003 174-230: the keys of the list view; an active input takes none.
Part003_updateNormal(mm, key) ==
    CASE key = "q" -> [mm EXCEPT !.quit = TRUE]
      [] key = "tab" ->
             [mm EXCEPT !.focus = IF mm.focus = "LeftPanel"
                                  THEN "RightPanel" ELSE "LeftPanel"]
      [] key \in {"i", "/"} ->
             [mm EXCEPT !.focus = "LeftPanel", !.activeInput = "includeInput"]
      [] key = "\\" ->
             [mm EXCEPT !.focus = "LeftPanel", !.activeInput = "excludeInput"]
      [] key = "c" ->
             Part003_applyFilters([mm EXCEPT !.includeInput = <<>>, !.excludeInput = <<>>])
      [] key = "enter" ->
             IF mm.focus = "RightPanel" /\ Len(mm.filteredEntries) > 0
             THEN [mm EXCEPT !.viewMode = "DetailView"] ELSE mm
      [] OTHER ->
             IF mm.focus = "LeftPanel"
             THEN Part003_updateLeftPanel(mm, key)
             ELSE Part003_updateRightPanel(mm, key)

\* Model.Update, case tea.KeyMsg (part_003 147-230).
Part003_UpdateKey(mm, key) ==
    IF mm.viewMode = "DetailView"
    THEN (IF key \in {"esc", "q"} THEN [mm EXCEPT !.viewMode = "NormalView"] ELSE mm)
    ELSE IF mm.activeInput # "nil" /\ key = "esc"
    THEN [mm EXCEPT !.activeInput = "nil", !.focus = "RightPanel"]
    ELSE IF mm.activeInput # "nil" /\ key = "enter"
    THEN Part003_applyFilters([mm EXCEPT !.activeInput = "nil", !.focus = "RightPanel"])
    ELSE Part003_updateNormal(mm, key)

KeyEntryLists ==
    {<<>>,
     <<Entry("INFO", <<"a">>), Entry("ERROR", <<"b">>), Entry("INFO", <<"b", "q">>)>>}

KeyTexts == {<<>>, <<"b">>, <<"q">>}

Keys ==
    {"enter", "esc", "q", "tab", "/", "\\", "i", "c", "b", "3", "backspace",
     "up", "down", "end"}

KeyHeights == {12}

InitKeys ==
    /\ impl \in {"Model", "Model_part_003"}
    /\ lastOp = "init"
    /\ ps = Unused /\ rc = Unused /\ hd = Unused /\ rn = Unused
    /\ fa = Unused /\ clk = Unused
    /\ added \in KeyEntryLists
    /\ \E height \in KeyHeights :
          LET fields == NewKeyFields
                            @@ [NewModelFields(max(1, Len(added)), <<>>, <<>>)
                                    EXCEPT !.height = height]
              b == AddAll(fields.buffer, added)
              m0 == [fields EXCEPT !.buffer = b, !.entries = CircularBuffer_GetAll(b)]
          IN m = IF impl = "Model"
                 THEN Model_applyFilters(m0) ELSE Part003_applyFilters(m0)
    /\ um = UnifiedUnused
    /\ vm = Unused /\ fi = Unused /\ ix = Unused /\ ing = Unused /\ ui = Unused

\* Update on tea.KeyMsg; tea.Quit ends the program.
K_Key(key) ==
    /\ ~m.quit
    /\ m' = IF impl = "Model" THEN Model_UpdateKey(m, key) ELSE Part003_UpdateKey(m, key)
    /\ m'.includeInput \in KeyTexts /\ m'.excludeInput \in KeyTexts
    /\ lastOp' = key
    /\ UNCHANGED <<impl, added, vm, um, fi, ix, ing, ui, ps, rc, hd, rn, fa, clk>>

NextKeys == \E key \in Keys : K_Key(key)

SpecKeys == InitKeys /\ [][NextKeys]_vars

\* What a key of the detail view must leave alone: the selection and the filters.
SelectionAndFilters(mm) ==
    <<mm.selectedIdx, mm.scrollOffset, mm.includeInput, mm.excludeInput,
      mm.useRegex, mm.caseSensitive, mm.showDebug, mm.showInfo, mm.showWarn,
      mm.showError, mm.filteredEntries>>

\* C31: in the list view with the right panel focused and at least one
\* filtered entry, Enter switches to the detail view; in the detail view Esc
\* or q returns to the list view without quitting, and no other key changes
\* the view mode, the selection or the filters.
C31_DetailViewKeys ==
    [][impl = "Model" =>
          /\ (/\ m.viewMode = "NormalView" /\ m.focus = "RightPanel"
              /\ Len(m.filteredEntries) > 0 /\ lastOp' = "enter")
                 => m'.viewMode = "DetailView"
          /\ (m.viewMode = "DetailView" /\ lastOp' \in {"esc", "q"})
                 => (m'.viewMode = "NormalView" /\ ~m'.quit)
          /\ (m.viewMode = "DetailView" /\ lastOp' \notin {"esc", "q"})
                 => /\ m'.viewMode = "DetailView"
                    /\ SelectionAndFilters(m') = SelectionAndFilters(m)]_vars

\* The detail view was entered with Enter on an entry below the first and has
\* just taken the key down.
C31_Witness ==
    /\ impl = "Model" /\ m.viewMode = "DetailView" /\ lastOp = "down"
    /\ m.selectedIdx > 0 /\ Len(m.filteredEntries) > 1 /\ ~m.quit

\* C32: whenever a filter input is active, pressing Esc or Enter deactivates
\* it (activeInput becomes nil) and returns the focus to the right panel;
\* Enter also applies the filters.
C32_InputLeftWithEscOrEnter ==
    [][(m.activeInput # "nil" /\ lastOp' \in {"esc", "enter"})
       => /\ m'.activeInput = "nil"
          /\ m'.focus = "RightPanel"
          /\ lastOp' = "enter" =>
                 m'.filteredEntries =
                     (IF impl = "Model" THEN Model_applyFilters(m')
                      ELSE Part003_applyFilters(m')).filteredEntries]_vars

\* The same without the focus.
C32_InputDeactivated ==
    [][(m.activeInput # "nil" /\ lastOp' \in {"esc", "enter"})
       => /\ m'.activeInput = "nil"
          /\ lastOp' = "enter" =>
                 m'.filteredEntries =
                     (IF impl = "Model" THEN Model_applyFilters(m')
                      ELSE Part003_applyFilters(m')).filteredEntries]_vars

\* The same for the Model of unnamed/part_003, the focus included.
C32_Part003InputLeft ==
    [][(impl = "Model_part_003" /\ m.activeInput # "nil" /\ lastOp' \in {"esc", "enter"})
       => (m'.activeInput = "nil" /\ m'.focus = "RightPanel")]_vars

====
